---- MODULE Spec2Model ----
(***************************************************************************)
(* Model of the live translation server (server/routes.ts, server/         *)
(* storage.ts): the connection registry `activeConnections`, the           *)
(* per-connection WebSocket handlers (message / close), the audio_data     *)
(* segment pipeline and the in-memory record store.                        *)
(*                                                                         *)
(* Scheduling is Node's: a handler runs to its next `await` without        *)
(* interruption and is split there into consecutive actions.  A storage    *)
(* call of MemStorage takes effect when it is called (its body has no      *)
(* await) and its caller resumes from the microtask queue `microQ`, in     *)
(* FIFO order, before any other event (a close, a message of another       *)
(* connection, the completion of an external call) is handled; only the    *)
(* messages that arrive in the same chunk on the same connection (`burst`) *)
(* start their handlers before the queue is drained.  The awaits of the    *)
(* external services (transcription, translation, speech) are real         *)
(* suspension points: any event may be handled before they complete.       *)
(*                                                                         *)
(* ws.send on a transport that is not OPEN drops the message (ws >= 7.2,   *)
(* sendAfterClose).  A transport becomes CLOSING when the server closes it *)
(* or when the close frame of the peer is read, and CLOSED, with the close *)
(* event, when its socket has closed; messages are handled while it is     *)
(* OPEN or CLOSING and the close frame of the peer has not been read.      *)
(*                                                                         *)
(* The client side is the hook useWebSocket with the two components that   *)
(* use it; it has its own variables and specifications.                    *)
(***************************************************************************)
EXTENDS Integers, Sequences, FiniteSets, TLC

----------------------------------------------------------------------------
(* Bounds of the model *)

MaxConns == 3
MaxClients == 2
MaxMsgs == 3
MaxEvents == 1
MaxPosted == 1
MaxClock == 1
MaxLeaving == 1

Conns == 1..MaxConns

----------------------------------------------------------------------------
(* Values *)

NaN == -1

\* parseInt(data.eventId) on the raw values a message can carry.  "" stands
\* for an absent (falsy) field.
ParseInt(raw) ==
  CASE raw = "1" -> 1
    [] raw = "2" -> 2
    [] raw = "0" -> 0
    [] OTHER -> NaN

\* JavaScript truthiness of a number (eventId && ...): 0 and NaN are falsy.
TruthyNum(n) == n # 0 /\ n # NaN

\* data.x || dflt on a string field
OrElse(raw, dflt) == IF raw = "" THEN dflt ELSE raw

Last(s) == s[Len(s)]

\* Array.prototype.splice(i, 1)
Splice(s, i) == SubSeq(s, 1, i - 1) \o SubSeq(s, i + 1, Len(s))

----------------------------------------------------------------------------
VARIABLES
  readyState,         \* ws.readyState of each connection object
  socketOnData,       \* ws: the 'data' listener of the connection's socket is attached
  sessionId,          \* let sessionId   (closure of wss.on('connection'))
  eventId,            \* let eventId
  language,           \* let language
  enableAudio,        \* let enableAudio
  activeConnections,  \* Map<number, EventConnection[]>: event -> array object
  arrays,             \* heap of array objects: sequences of entry objects
  entries,            \* heap of EventConnection objects
  events,             \* MemStorage.events (ids)
  eventCurrentId,     \* MemStorage.eventCurrentId
  participants,       \* MemStorage.participants
  translations,       \* MemStorage.translations
  clock,              \* value of new Date()
  nanoCount,          \* number of nanoid() calls so far
  tasks,              \* invocations of the async message handler
  outbox,             \* messages delivered to each connection, in order
  microQ,             \* continuations waiting in the microtask queue
  burst,              \* connection whose data event is emitting messages, or 0
  calls,              \* external service calls issued so far
  nMsgs,              \* inbound JSON messages handled so far
  nSegs,              \* audio_data messages among them
  nInvalid,           \* inbound messages that were not JSON
  exited,             \* the server process has terminated
  page,               \* the component that uses the hook ("" before it mounts)
  mounted,            \* the component is mounted
  wsRef,              \* ws.current: a socket, or 0 for null
  reconnectCount,     \* reconnectCount.current
  reconnectTimeoutRef,\* reconnectTimeoutRef.current: a timer, or 0 for null
  connected,          \* the state `connected`: a socket, or 0 for null
  connectionStatus,   \* the state `connectionStatus` of the participant page
  connectionError,    \* the state `connectionError` of the participant page is not null
  error,              \* the state `error` of the hook (wsError) is not null
  effects,            \* effects of the page whose dependencies changed since they ran
  sockets,            \* the WebSocket objects the hook has created
  timers,             \* the timeouts the client has set
  attempts            \* sockets created by reconnect timeouts since the last open

serverVars == <<readyState, socketOnData, exited, sessionId, eventId, language, enableAudio,
                activeConnections, arrays, entries, events, eventCurrentId, participants,
                translations, clock, nanoCount, tasks, microQ, burst, outbox, calls,
                nMsgs, nSegs, nInvalid>>

hookVars == <<page, mounted, wsRef, reconnectCount, reconnectTimeoutRef, connected,
              connectionStatus, connectionError, error, effects, sockets, timers, attempts>>

vars == <<serverVars, hookVars>>

connVars == <<sessionId, eventId, language, enableAudio>>
registryVars == <<activeConnections, arrays, entries>>
storeVars == <<events, eventCurrentId, participants, translations, clock>>
schedVars == <<tasks, microQ, burst>>

----------------------------------------------------------------------------
(* The registry *)

\* activeConnections.has(e)
Has(ac, e) == e \in DOMAIN ac

\* activeConnections.get(e) || []  as a sequence of entry ids
GroupIds(e) == IF Has(activeConnections, e) THEN arrays[activeConnections[e]] ELSE << >>

\* the EventConnection objects of event e, in array order
Group(e) == [i \in 1..Len(GroupIds(e)) |-> entries[GroupIds(e)[i]]]

\* connections.findIndex(c => c.sessionId === sid); 0 when there is none
FindIndex(ents, ids, sid) ==
  LET hit == {i \in 1..Len(ids) : ents[ids[i]].sessionId = sid}
  IN IF hit = {} THEN 0 ELSE CHOOSE i \in hit : \A j \in hit : i <= j

\* c => !c.isOrganizer  /  c => c.isOrganizer
ParticipantCount(ents, ids) == Cardinality({i \in 1..Len(ids) : ~ents[ids[i]].isOrganizer})
OrganizerCount(ents, ids) == Cardinality({i \in 1..Len(ids) : ents[ids[i]].isOrganizer})

----------------------------------------------------------------------------
(* Delivery *)

\* a server that sends nothing
SendNothing(out, rs, c, msg) == out

\* ws.send(msg) on connection c
Send(out, rs, c, msg) ==
  IF rs[c] = "OPEN" THEN [out EXCEPT ![c] = Append(@, msg)] ELSE out

RECURSIVE SendAll(_, _, _)
\* a sequence of sends <<c, msg>>, in order
SendAll(out, rs, sends) ==
  IF sends = << >> THEN out
  ELSE SendAll(Send(out, rs, sends[1][1], sends[1][2]), rs, Tail(sends))

\* for (const conn of connections) if (conn.ws.readyState === OPEN) conn.ws.send(participant_count)
PresenceSends(ents, ids) ==
  [i \in 1..Len(ids) |->
     <<ents[ids[i]].ws, [type |-> "participant_count", count |-> ParticipantCount(ents, ids)]>>]

----------------------------------------------------------------------------
(* Handler invocations *)

\* the process runs and no continuation is pending: the next event of the loop
\* may be handled
Idle == ~exited /\ microQ = << >>

\* the continuation of handler t is at the head of the microtask queue
Resumes(t) == ~exited /\ microQ # << >> /\ Head(microQ) = <<t, "">>

\* the handler invocation t has returned
Drop(ts, t) == [u \in DOMAIN ts \ {t} |-> ts[u]]

\* a new handler invocation t
Spawn(ts, t, T) == [u \in DOMAIN ts \cup {t} |-> IF u = t THEN T ELSE ts[u]]

Init ==
  /\ readyState = [c \in Conns |-> "NEW"]
  /\ sessionId = [c \in Conns |-> ""]
  /\ eventId = [c \in Conns |-> 0]
  /\ language = [c \in Conns |-> "English"]
  /\ enableAudio = [c \in Conns |-> FALSE]
  /\ activeConnections = [e \in {} |-> 0]
  /\ arrays = << >>
  /\ entries = << >>
  /\ events = {}
  /\ eventCurrentId = 1
  /\ participants = << >>
  /\ translations = << >>
  /\ clock = 0
  /\ nanoCount = 0
  /\ tasks = [t \in {} |-> 0]
  /\ microQ = << >>
  /\ burst = 0
  /\ outbox = [c \in Conns |-> << >>]
  /\ calls = [k \in {} |-> 0]
  /\ nMsgs = 0
  /\ nSegs = 0
  /\ socketOnData = [c \in Conns |-> FALSE]
  /\ nInvalid = 0
  /\ exited = FALSE
  /\ page = ""
  /\ mounted = FALSE
  /\ wsRef = 0
  /\ reconnectCount = 0
  /\ reconnectTimeoutRef = 0
  /\ connected = 0
  /\ connectionStatus = "connecting"
  /\ connectionError = FALSE
  /\ error = FALSE
  /\ effects = {}
  /\ sockets = << >>
  /\ timers = << >>
  /\ attempts = 0

----------------------------------------------------------------------------
(* app.post('/api/events'): MemStorage.createEvent, id = eventCurrentId++ *)
CreateEvent ==
  /\ Idle
  /\ events' = events \cup {eventCurrentId}
  /\ eventCurrentId' = eventCurrentId + 1
  /\ UNCHANGED <<readyState, connVars, registryVars, participants, translations,
                 clock, nanoCount, schedVars, outbox, calls, nMsgs, nSegs>>
  /\ UNCHANGED <<socketOnData, exited, nInvalid, hookVars>>

(* app.delete('/api/events/:id'): MemStorage.deleteEvent; an id that is not *)
(* stored is answered with 404 and changes nothing                          *)
DeleteEvent(id) ==
  /\ Idle
  /\ events' = events \ {id}
  /\ UNCHANGED <<readyState, connVars, registryVars, eventCurrentId, participants,
                 translations, clock, nanoCount, schedVars, outbox, calls, nMsgs, nSegs>>
  /\ UNCHANGED <<socketOnData, exited, nInvalid, hookVars>>

(* new Date() returns a later value than before: time passes between any    *)
(* two steps of the server, also while a handler waits at an await          *)
Tick ==
  /\ ~exited
  /\ clock' = clock + 1
  /\ UNCHANGED <<readyState, connVars, registryVars, events, eventCurrentId, participants,
                 translations, nanoCount, schedVars, outbox, calls, nMsgs, nSegs>>
  /\ UNCHANGED <<socketOnData, exited, nInvalid, hookVars>>

(* wss.on('connection') *)
Connect(c) ==
  /\ Idle
  /\ readyState[c] = "NEW"
  /\ \A d \in Conns : d < c => readyState[d] # "NEW"
  /\ readyState' = [readyState EXCEPT ![c] = "OPEN"]
  /\ socketOnData' = [socketOnData EXCEPT ![c] = TRUE]
  /\ outbox' = [outbox EXCEPT ![c] = Append(@, [type |-> "connection_established"])]
  /\ UNCHANGED <<connVars, registryVars, storeVars, nanoCount, schedVars, calls, nMsgs, nSegs>>
  /\ UNCHANGED <<exited, nInvalid, hookVars>>

\* a frame of connection c is read and handed to its handler: the transport
\* is open, or closing with the close frame of the peer still to come
CanReceive(c) ==
  /\ ~exited
  /\ readyState[c] \in {"OPEN", "CLOSING"}
  /\ socketOnData[c]
  /\ Idle \/ burst = c

----------------------------------------------------------------------------
(* MemStorage *)

\* nanoid(): the n-th generated identifier
NanoId(n) == <<"n1", "n2", "n3", "n4", "n5", "n6", "n7", "n8">>[n]

\* getParticipantBySessionId: index of the first participant with that
\* sessionId, 0 for undefined
GetParticipantBySessionId(ps, sid) ==
  LET hit == {i \in 1..Len(ps) : ps[i].sessionId = sid}
  IN IF hit = {} THEN 0 ELSE CHOOSE i \in hit : \A j \in hit : i <= j

\* createParticipant
CreateParticipant(ps, eid, sid, lang) ==
  Append(ps, [eventId |-> eid, sessionId |-> sid, language |-> lang])

(* app.post('/api/participants'): insertParticipantSchema.parse, then       *)
(* MemStorage.createParticipant; neither looks at the events or at the      *)
(* participants that are stored                                             *)
PostParticipant(eid, sid, lang) ==
  /\ Idle
  /\ participants' = CreateParticipant(participants, eid, sid, lang)
  /\ UNCHANGED <<readyState, connVars, registryVars, events, eventCurrentId, translations,
                 clock, nanoCount, schedVars, outbox, calls, nMsgs, nSegs>>
  /\ UNCHANGED <<socketOnData, exited, nInvalid, hookVars>>

RECURSIVE InsertDesc(_, _)
\* r put into s (sorted by timestamp, descending) behind every record that is
\* not older: the stable order of Array.prototype.sort
InsertDesc(s, r) ==
  IF s = << >> THEN <<r>>
  ELSE IF s[1].timestamp >= r.timestamp THEN <<s[1]>> \o InsertDesc(Tail(s), r)
  ELSE <<r>> \o s

RECURSIVE SortDesc(_)
\* .sort((a, b) => b.timestamp - a.timestamp)
SortDesc(s) ==
  IF s = << >> THEN << >>
  ELSE InsertDesc(SortDesc(SubSeq(s, 1, Len(s) - 1)), Last(s))

\* a result that is not cut
NoSlice(s, limit) == s

\* .slice(0, limit)
Slice(s, limit) == SubSeq(s, 1, IF Len(s) < limit THEN Len(s) ELSE limit)

InEvent(eid, r) == r.eventId = eid

\* getRecentTranslations(eventId, limit)
GetRecentTranslations(trs, eid, limit) ==
  Slice(SortDesc(SelectSeq(trs, LAMBDA r : InEvent(eid, r))), limit)

RecentLimit == 10

\* a store that drops the record
CreateNothing(trs, now, eid, text, translated, lang) == trs

\* a store that keeps the record twice
CreateTwice(trs, now, eid, text, translated, lang) ==
  Append(Append(trs, [id |-> Len(trs) + 1, eventId |-> eid, originalText |-> text,
                      translatedText |-> translated, language |-> lang, timestamp |-> now]),
         [id |-> Len(trs) + 2, eventId |-> eid, originalText |-> text,
          translatedText |-> translated, language |-> lang, timestamp |-> now])

\* createTranslation: id = translationCurrentId++, timestamp = new Date()
CreateTranslation(trs, now, eid, text, translated, lang) ==
  Append(trs, [id |-> Len(trs) + 1, eventId |-> eid, originalText |-> text,
               translatedText |-> translated, language |-> lang, timestamp |-> now])

Ids(recs) == [i \in 1..Len(recs) |-> recs[i].id]

----------------------------------------------------------------------------
(* case 'join' *)

\* lines 117-119: if (oldConnection.ws.readyState === OPEN) oldConnection.ws.close()
CloseOld(rs, old) == IF rs[old] = "OPEN" THEN [rs EXCEPT ![old] = "CLOSING"] ELSE rs

\* a join that leaves the entry of the superseded session in the array
KeepOld(ids, idx) == ids

\* lines 112, 121: connections.splice(existingConnectionIndex, 1) when an
\* entry of the session was found
RemoveOld(ids, idx) == IF idx > 0 THEN Splice(ids, idx) ELSE ids

\* lines 104-131: the group is created when missing, an entry of the same
\* sessionId is closed (when OPEN) and spliced out, the new entry is pushed
JoinRegistry(ac, arrs, ents, rs, c, eid, sid, lang, audio, org) ==
  LET fresh == ~Has(ac, eid)
      arrs1 == IF fresh THEN Append(arrs, << >>) ELSE arrs
      ac1 == [e \in DOMAIN ac \cup {eid} |-> IF e = eid /\ fresh THEN Len(arrs1) ELSE ac[e]]
      a == ac1[eid]
      ids == arrs1[a]
      idx == FindIndex(ents, ids, sid)
      old == IF idx > 0 THEN ents[ids[idx]].ws ELSE 0
      rs1 == IF idx > 0 THEN CloseOld(rs, old) ELSE rs
      ids1 == RemoveOld(ids, idx)
      ents1 == Append(ents, [ws |-> c, language |-> lang, sessionId |-> sid,
                             enableAudio |-> audio, isOrganizer |-> org])
  IN [ac |-> ac1,
      arrays |-> [arrs1 EXCEPT ![a] = Append(ids1, Len(ents1))],
      entries |-> ents1,
      readyState |-> rs1,
      superseded |-> old]

\* a check that lets every join pass
NeverMissing(raw) == FALSE

\* line 91: !data.eventId
MissingEventId(raw) == raw = ""

\* lines 89-137/155: up to the first await of the handler
JoinStart(c, data) ==
  /\ CanReceive(c)
  /\ nMsgs' = nMsgs + 1
  /\ IF MissingEventId(data.eventId)
     THEN \* throw new Error('Missing eventId in join request'), caught at 486
          /\ outbox' = Send(outbox, readyState, c, [type |-> "error", message |-> "Missing eventId"])
          /\ burst' = IF Idle THEN 0 ELSE c
          /\ UNCHANGED <<readyState, connVars, registryVars, storeVars, nanoCount, tasks,
                         microQ, calls, nSegs>>
     ELSE LET eid == ParseInt(data.eventId)
              gen == data.sessionId = ""
              sid == IF gen THEN NanoId(nanoCount + 1) ELSE data.sessionId
              lang == OrElse(data.language, "English")
              reg == JoinRegistry(activeConnections, arrays, entries, readyState,
                                  c, eid, sid, lang, data.enableAudio, data.isOrganizer)
          IN /\ eventId' = [eventId EXCEPT ![c] = eid]
             /\ sessionId' = [sessionId EXCEPT ![c] = sid]
             /\ language' = [language EXCEPT ![c] = lang]
             /\ enableAudio' = [enableAudio EXCEPT ![c] = data.enableAudio]
             /\ nanoCount' = IF gen THEN nanoCount + 1 ELSE nanoCount
             /\ activeConnections' = reg.ac
             /\ arrays' = reg.arrays
             /\ entries' = reg.entries
             /\ readyState' = reg.readyState
             /\ microQ' = Append(microQ, <<nMsgs + 1, "">>)
             /\ burst' = c
             /\ tasks' = Spawn(tasks, nMsgs + 1,
                  IF data.isOrganizer
                  THEN [kind |-> "join", conn |-> c, pc |-> "j155", isOrganizer |-> TRUE,
                        existing |-> 0, event |-> FALSE,
                        recent |-> Ids(GetRecentTranslations(translations, eid, RecentLimit))]
                  ELSE [kind |-> "join", conn |-> c, pc |-> "j137", isOrganizer |-> FALSE,
                        existing |-> GetParticipantBySessionId(participants, sid),
                        event |-> FALSE, recent |-> << >>])
             /\ UNCHANGED <<storeVars, outbox, calls, nSegs>>
  /\ UNCHANGED <<socketOnData, exited, nInvalid, hookVars>>

\* resumes after `await storage.getParticipantBySessionId` (line 137)
JoinParticipant(t) ==
  LET T == tasks[t]
      c == T.conn
  IN /\ Resumes(t)
     /\ T.kind = "join" /\ T.pc = "j137"
     /\ microQ' = Append(Tail(microQ), <<t, "">>)
     /\ burst' = 0
     /\ IF T.existing = 0
        THEN /\ participants' = CreateParticipant(participants, eventId[c], sessionId[c], language[c])
             /\ tasks' = [tasks EXCEPT ![t].pc = "j139"]
        ELSE /\ participants' = participants
             /\ tasks' = [tasks EXCEPT ![t].pc = "j155",
                            ![t].recent = Ids(GetRecentTranslations(translations, eventId[c], RecentLimit))]
     /\ UNCHANGED <<readyState, connVars, registryVars, events, eventCurrentId, translations, clock,
                    nanoCount, outbox, calls, nMsgs, nSegs>>
     /\ UNCHANGED <<socketOnData, exited, nInvalid, hookVars>>

\* resumes after `await storage.createParticipant` (line 139)
JoinCreated(t) ==
  LET T == tasks[t]
      c == T.conn
  IN /\ Resumes(t)
     /\ T.kind = "join" /\ T.pc = "j139"
     /\ microQ' = Append(Tail(microQ), <<t, "">>)
     /\ burst' = 0
     /\ tasks' = [tasks EXCEPT ![t].pc = "j155",
                    ![t].recent = Ids(GetRecentTranslations(translations, eventId[c], RecentLimit))]
     /\ UNCHANGED <<readyState, connVars, registryVars, storeVars, nanoCount, outbox, calls, nMsgs, nSegs>>
     /\ UNCHANGED <<socketOnData, exited, nInvalid, hookVars>>

\* resumes after `await storage.getRecentTranslations` (line 155)
JoinRecent(t) ==
  LET T == tasks[t]
      c == T.conn
  IN /\ Resumes(t)
     /\ T.kind = "join" /\ T.pc = "j155"
     /\ microQ' = Append(Tail(microQ), <<t, "">>)
     /\ burst' = 0
     /\ outbox' = Send(outbox, readyState, c, [type |-> "recent_translations", translations |-> T.recent])
     /\ tasks' = [tasks EXCEPT ![t].pc = "j167", ![t].existing = 0, ![t].recent = << >>,
                    ![t].event = eventId[c] \in events]
     /\ UNCHANGED <<readyState, connVars, registryVars, storeVars, nanoCount, calls, nMsgs, nSegs>>
     /\ UNCHANGED <<socketOnData, exited, nInvalid, hookVars>>

\* lines 195-214: the presence broadcast of a join
JoinPresence(ents, ids) == PresenceSends(ents, ids)

\* resumes after `await storage.getEvent` (line 167): event_info or error,
\* session_joined, participant_count to the group of eventId
JoinFinish(t) ==
  LET T == tasks[t]
      c == T.conn
      info == IF T.event THEN [type |-> "event_info", event |-> eventId[c]]
              ELSE [type |-> "error", message |-> "Event not found"]
      joined == [type |-> "session_joined", sessionId |-> sessionId[c], eventId |-> eventId[c],
                 language |-> language[c], isOrganizer |-> T.isOrganizer]
  IN /\ Resumes(t)
     /\ T.kind = "join" /\ T.pc = "j167"
     /\ microQ' = Tail(microQ)
     /\ burst' = 0
     /\ outbox' = SendAll(outbox, readyState,
                          <<<<c, info>>, <<c, joined>>>> \o JoinPresence(entries, GroupIds(eventId[c])))
     /\ tasks' = Drop(tasks, t)
     /\ UNCHANGED <<readyState, connVars, registryVars, storeVars, nanoCount, calls, nMsgs, nSegs>>
     /\ UNCHANGED <<socketOnData, exited, nInvalid, hookVars>>

----------------------------------------------------------------------------
(* case 'update_language', case 'toggle_audio' *)

\* an update that sets the language of every entry of the group
SetLanguageAll(ac, arrs, ents, eid, sid, lang) ==
  IF ~Has(ac, eid) THEN ents
  ELSE [i \in 1..Len(ents) |->
          IF \E k \in 1..Len(arrs[ac[eid]]) : arrs[ac[eid]][k] = i
          THEN [ents[i] EXCEPT !.language = lang] ELSE ents[i]]

\* connections[connectionIndex].language = language, when the session is found
SetLanguage(ac, arrs, ents, eid, sid, lang) ==
  IF ~Has(ac, eid) THEN ents
  ELSE LET idx == FindIndex(ents, arrs[ac[eid]], sid)
       IN IF idx > 0 THEN [ents EXCEPT ![arrs[ac[eid]][idx]].language = lang] ELSE ents

\* connections[connectionIndex].enableAudio = enableAudio, when the session is found
SetAudio(ac, arrs, ents, eid, sid, audio) ==
  IF ~Has(ac, eid) THEN ents
  ELSE LET idx == FindIndex(ents, arrs[ac[eid]], sid)
       IN IF idx > 0 THEN [ents EXCEPT ![arrs[ac[eid]][idx]].enableAudio = audio] ELSE ents

\* lines 217-232: up to `await storage.getParticipantBySessionId`
UpdateLanguage(c, lang) ==
  /\ CanReceive(c)
  /\ nMsgs' = nMsgs + 1
  /\ language' = [language EXCEPT ![c] = lang]
  /\ entries' = SetLanguage(activeConnections, arrays, entries, eventId[c], sessionId[c], lang)
  /\ tasks' = Spawn(tasks, nMsgs + 1,
                    [kind |-> "update_language", conn |-> c, pc |-> "u232",
                     existing |-> GetParticipantBySessionId(participants, sessionId[c])])
  /\ microQ' = Append(microQ, <<nMsgs + 1, "">>)
  /\ burst' = c
  /\ UNCHANGED <<readyState, sessionId, eventId, enableAudio, activeConnections, arrays,
                 storeVars, nanoCount, outbox, calls, nSegs>>
  /\ UNCHANGED <<socketOnData, exited, nInvalid, hookVars>>

\* updateParticipant(id, { language })
UpdateParticipant(ps, i, lang) == [ps EXCEPT ![i].language = lang]

\* resumes after the await of line 232: storage.updateParticipant
UpdateLanguageStore(t) ==
  LET T == tasks[t]
  IN /\ Resumes(t)
     /\ T.kind = "update_language" /\ T.pc = "u232"
     /\ microQ' = Tail(microQ)
     /\ burst' = 0
     /\ participants' = IF T.existing > 0
                        THEN UpdateParticipant(participants, T.existing, language[T.conn])
                        ELSE participants
     /\ tasks' = Drop(tasks, t)
     /\ UNCHANGED <<readyState, connVars, registryVars, events, eventCurrentId, translations, clock,
                    nanoCount, outbox, calls, nMsgs, nSegs>>
     /\ UNCHANGED <<socketOnData, exited, nInvalid, hookVars>>

\* lines 238-251
ToggleAudio(c, audio) ==
  /\ CanReceive(c)
  /\ nMsgs' = nMsgs + 1
  /\ enableAudio' = [enableAudio EXCEPT ![c] = audio]
  /\ entries' = SetAudio(activeConnections, arrays, entries, eventId[c], sessionId[c], audio)
  /\ burst' = IF Idle THEN 0 ELSE c
  /\ UNCHANGED <<readyState, sessionId, eventId, language, activeConnections, arrays,
                 storeVars, nanoCount, tasks, microQ, outbox, calls, nSegs>>
  /\ UNCHANGED <<socketOnData, exited, nInvalid, hookVars>>

----------------------------------------------------------------------------
(* ws.on('close') *)

\* a close handler that stores the filtered array even when it is empty
CloseRegistryKeepEmpty(ac, arrs, ents, eid, sid) ==
  IF TruthyNum(eid) /\ Has(ac, eid)
  THEN LET updatedConnections == SelectSeq(arrs[ac[eid]], LAMBDA i : ents[i].sessionId # sid)
       IN [ac |-> [ac EXCEPT ![eid] = Len(arrs) + 1],
           arrays |-> Append(arrs, updatedConnections),
           sends |-> PresenceSends(ents, updatedConnections)]
  ELSE [ac |-> ac, arrays |-> arrs, sends |-> << >>]

\* lines 499-533: the entries of the closing connection's sessionId are
\* filtered out of the group of its eventId; the group is replaced by the
\* filtered array, or deleted when that is empty
CloseRegistry(ac, arrs, ents, eid, sid) ==
  IF TruthyNum(eid) /\ Has(ac, eid)
  THEN LET connections == arrs[ac[eid]]
           updatedConnections == SelectSeq(connections, LAMBDA i : ents[i].sessionId # sid)
       IN IF Len(updatedConnections) > 0
          THEN [ac |-> [ac EXCEPT ![eid] = Len(arrs) + 1],
                arrays |-> Append(arrs, updatedConnections),
                sends |-> PresenceSends(ents, updatedConnections)]
          ELSE [ac |-> [e \in DOMAIN ac \ {eid} |-> ac[e]],
                arrays |-> arrs,
                sends |-> << >>]
  ELSE [ac |-> ac, arrays |-> arrs, sends |-> << >>]

\* ws reads the close frame of the peer of c (receiverOnConclude): it stops
\* reading the socket and calls close(), which makes an open transport
\* CLOSING; the close event comes later, when the socket has closed.  The
\* frame may follow a message in the same chunk, before the continuations of
\* that message's handler have run.
PeerClose(c) ==
  /\ CanReceive(c)
  /\ readyState' = [readyState EXCEPT ![c] = "CLOSING"]
  /\ socketOnData' = [socketOnData EXCEPT ![c] = FALSE]
  /\ UNCHANGED <<connVars, registryVars, storeVars, nanoCount, schedVars, outbox, calls,
                 nMsgs, nSegs>>
  /\ UNCHANGED <<exited, nInvalid, hookVars>>

\* the socket of c has closed (after the close frames were exchanged, or
\* because the connection was lost): ws emits 'close' and the close handler
\* runs
OnClose(c) ==
  LET rs1 == [readyState EXCEPT ![c] = "CLOSED"]
      reg == CloseRegistry(activeConnections, arrays, entries, eventId[c], sessionId[c])
  IN /\ Idle
     /\ readyState[c] \in {"OPEN", "CLOSING"}
     /\ readyState' = rs1
     /\ socketOnData' = [socketOnData EXCEPT ![c] = FALSE]
     /\ activeConnections' = reg.ac
     /\ arrays' = reg.arrays
     /\ outbox' = SendAll(outbox, rs1, reg.sends)
     /\ UNCHANGED <<connVars, entries, storeVars, nanoCount, schedVars, calls, nMsgs, nSegs>>
     /\ UNCHANGED <<exited, nInvalid, hookVars>>

\* ws reads a frame of c that violates the protocol (an unmasked frame, a bad
\* opcode): it emits 'error' on the connection, which has no 'error'
\* listener, so the emit throws and the process terminates with the uncaught
\* exception.  Before the emit ws detaches the 'data' listener of the socket
\* and calls close(), which makes the transport CLOSING.  The other variables
\* keep the values the process had when it terminated; no step of the server
\* is taken afterwards.
PeerProtocolError(c) ==
  /\ CanReceive(c)
  /\ readyState' = [readyState EXCEPT ![c] = "CLOSING"]
  /\ socketOnData' = [socketOnData EXCEPT ![c] = FALSE]
  /\ exited' = TRUE
  /\ UNCHANGED <<connVars, registryVars, storeVars, nanoCount, schedVars, outbox, calls,
                 nMsgs, nSegs>>
  /\ UNCHANGED <<nInvalid, hookVars>>

\* lines 72-82: a message that is not JSON is answered with an error, and the
\* handler returns
InvalidFormat == [type |-> "error", message |-> "Invalid message format: Message must be valid JSON"]

InvalidMessage(c) ==
  /\ CanReceive(c)
  /\ nInvalid' = nInvalid + 1
  /\ outbox' = Send(outbox, readyState, c, InvalidFormat)
  /\ burst' = IF Idle THEN 0 ELSE c
  /\ UNCHANGED <<readyState, connVars, registryVars, storeVars, nanoCount, tasks, microQ,
                 calls, nMsgs, nSegs>>
  /\ UNCHANGED <<socketOnData, exited, hookVars>>

\* the connections other than c that are closing or closed
Leaving(c) == {d \in Conns \ {c} : readyState[d] \in {"CLOSING", "CLOSED"}}

\* c is closing already, or fewer than MaxLeaving other connections are
MayLeave(c) == readyState[c] = "CLOSING" \/ Cardinality(Leaving(c)) < MaxLeaving

----------------------------------------------------------------------------
(* case 'audio_data' *)

AudioMinChars == 50
BufferMinBytes == 100

\* Buffer.from(audioBase64, 'base64').length for a payload of n characters
Base64Bytes(n) == (n * 3) \div 4

\* the text the transcription service returns for segment t
SegText(t) == <<"t1", "t2", "t3", "t4", "t5", "t6", "t7", "t8">>[t]

\* a text that is left as it is
NoTrim(text) == text

\* transcription.trim()
Trim(text) == IF text = " " THEN "" ELSE text

\* a result of transcribeAudio whose failure goes unnoticed
OutcomeIgnoringFailure(failed, text) == IF Trim(text) = "" THEN "empty" ELSE "text"

\* lines 323-327 and the catch of 452: what the handler makes of the result
\* of transcribeAudio: the call threw, or returned no speech, or text
Outcome(failed, text) ==
  IF failed THEN "error" ELSE IF Trim(text) = "" THEN "empty" ELSE "text"

\* one more request to the external service svc for segment t (and language
\* lang); a request that fails is counted under "<svc> failed" as well, and a
\* send that is attempted on a transport that is not OPEN under "send not open"
Called(cs, svc, t, lang) ==
  LET k == <<svc, t, lang>>
  IN [j \in DOMAIN cs \cup {k} |-> IF j = k THEN (IF k \in DOMAIN cs THEN cs[k] + 1 ELSE 1) ELSE cs[j]]

CallCount(svc, t, lang) ==
  IF <<svc, t, lang>> \in DOMAIN calls THEN calls[<<svc, t, lang>>] ELSE 0

\* lines 253-280: validation, then `await storage.getEvent(audioEventId)`.
\* data.audioLen is the length of data.audioBase64: 0 when it is missing or
\* the empty string (both are falsy), -1 when it is not a string.
AudioData(c, data) ==
  /\ CanReceive(c)
  /\ nMsgs' = nMsgs + 1
  /\ nSegs' = nSegs + 1
  /\ IF data.eventId = "" \/ data.audioLen = 0
     THEN /\ outbox' = Send(outbox, readyState, c, [type |-> "error", message |-> "Missing eventId or audio data"])
          /\ burst' = IF Idle THEN 0 ELSE c
          /\ UNCHANGED <<tasks, microQ>>
     ELSE IF data.audioLen < 0
     THEN /\ outbox' = Send(outbox, readyState, c, [type |-> "error", message |-> "Audio data must be a string"])
          /\ burst' = IF Idle THEN 0 ELSE c
          /\ UNCHANGED <<tasks, microQ>>
     ELSE /\ tasks' = Spawn(tasks, nMsgs + 1,
                 [kind |-> "audio_data", conn |-> c, pc |-> "a280",
                  audioEventId |-> ParseInt(data.eventId), audioLen |-> data.audioLen,
                  event |-> ParseInt(data.eventId) \in events,
                  transcription |-> "", translation |-> 0, arr |-> 0, langs |-> << >>,
                  jobs |-> [l \in {} |-> 0]])
          /\ microQ' = Append(microQ, <<nMsgs + 1, "">>)
          /\ burst' = c
          /\ outbox' = outbox
  /\ UNCHANGED <<readyState, connVars, registryVars, storeVars, nanoCount, calls>>
  /\ UNCHANGED <<socketOnData, exited, nInvalid, hookVars>>

\* line 291: activeConnections.get(audioEventId)?.find(c => c.sessionId === sessionId)
\* and line 292: senderConnection?.isOrganizer
SenderIsOrganizer(ac, arrs, ents, eid, sid) ==
  /\ Has(ac, eid)
  /\ FindIndex(ents, arrs[ac[eid]], sid) > 0
  /\ ents[arrs[ac[eid]][FindIndex(ents, arrs[ac[eid]], sid)]].isOrganizer

\* resumes after `await storage.getEvent` (line 280): the event and organizer
\* checks, the size check, then `await transcribeAudio`, which for a buffer of
\* BufferMinBytes or more writes a temporary file (part_003:38-44) before it
\* issues the request; throws: that write fails and transcribeAudio rejects
\* with no request issued
AudioChecks(t, throws) ==
  LET T == tasks[t]
      c == T.conn
      reply(m) == /\ outbox' = Send(outbox, readyState, c, m)
                  /\ tasks' = Drop(tasks, t)
                  /\ microQ' = Tail(microQ)
                  /\ calls' = calls
  IN /\ Resumes(t)
     /\ T.kind = "audio_data" /\ T.pc = "a280"
     /\ burst' = 0
     /\ IF ~T.event
        THEN reply([type |-> "error", message |-> "Event not found"])
        ELSE IF ~SenderIsOrganizer(activeConnections, arrays, entries, T.audioEventId, sessionId[c])
        THEN reply([type |-> "error", message |-> "Only organizers can broadcast audio"])
        ELSE IF T.audioLen < AudioMinChars
        THEN reply([type |-> "processing_status", status |-> "skipped", seg |-> t])
        ELSE /\ outbox' = Send(outbox, readyState, c,
                               [type |-> "processing_status", status |-> "processing", seg |-> t])
             /\ IF Base64Bytes(T.audioLen) < BufferMinBytes
                THEN \* transcribeAudio returns "" without a request
                     /\ calls' = calls
                     /\ tasks' = [tasks EXCEPT ![t].pc = "a323"]
                     /\ microQ' = Append(Tail(microQ), <<t, "">>)
                ELSE IF throws
                THEN /\ calls' = calls
                     /\ tasks' = [tasks EXCEPT ![t].pc = "a323throw"]
                     /\ microQ' = Append(Tail(microQ), <<t, "">>)
                ELSE /\ calls' = Called(calls, "transcribe", t, "")
                     /\ tasks' = [tasks EXCEPT ![t].pc = "a323io"]
                     /\ microQ' = Tail(microQ)
     /\ UNCHANGED <<readyState, connVars, registryVars, storeVars, nanoCount, nMsgs, nSegs>>
     /\ UNCHANGED <<socketOnData, exited, nInvalid, hookVars>>

\* lines 326-344 and the catch of 452: the handler continues with the result
\* of transcribeAudio (failed, or the text)
AfterTranscribe(t, failed, text, q) ==
  LET T == tasks[t]
      c == T.conn
  IN /\ IF Outcome(failed, text) = "error"
        THEN /\ outbox' = Send(outbox, readyState, c, [type |-> "error", message |-> "Failed to transcribe audio", seg |-> t])
             /\ tasks' = Drop(tasks, t)
             /\ microQ' = q
             /\ UNCHANGED translations
        ELSE IF Outcome(failed, text) = "empty"
        THEN /\ outbox' = Send(outbox, readyState, c,
                               [type |-> "processing_status", status |-> "complete", seg |-> t,
                                message |-> "No speech detected in audio"])
             /\ tasks' = Drop(tasks, t)
             /\ microQ' = q
             /\ UNCHANGED translations
        ELSE /\ translations' = CreateTranslation(translations, clock, T.audioEventId, text, << >>, "English")
             /\ tasks' = [tasks EXCEPT ![t].pc = "a339", ![t].transcription = text,
                            ![t].translation = Len(translations) + 1]
             /\ microQ' = Append(q, <<t, "">>)
             /\ outbox' = outbox

\* transcribeAudio returned "" for a buffer below BufferMinBytes
TranscribeShort(t) ==
  /\ Resumes(t)
  /\ tasks[t].kind = "audio_data" /\ tasks[t].pc = "a323"
  /\ burst' = 0
  /\ AfterTranscribe(t, FALSE, "", Tail(microQ))
  /\ calls' = calls
  /\ UNCHANGED <<readyState, connVars, registryVars, events, eventCurrentId, participants, clock, nanoCount, nMsgs, nSegs>>
  /\ UNCHANGED <<socketOnData, exited, nInvalid, hookVars>>

\* transcribeAudio rejected before it issued the request
TranscribeThrows(t) ==
  /\ Resumes(t)
  /\ tasks[t].kind = "audio_data" /\ tasks[t].pc = "a323throw"
  /\ burst' = 0
  /\ AfterTranscribe(t, TRUE, "", Tail(microQ))
  /\ calls' = calls
  /\ UNCHANGED <<readyState, connVars, registryVars, events, eventCurrentId, participants, clock, nanoCount, nMsgs, nSegs>>
  /\ UNCHANGED <<socketOnData, exited, nInvalid, hookVars>>

\* a handler whose catch removes the entry of the submitter from its group
TranscribeDoneUnregisters(t, failed, text) ==
  LET c == tasks[t].conn
      reg == CloseRegistry(activeConnections, arrays, entries, eventId[c], sessionId[c])
  IN /\ Idle
     /\ tasks[t].kind = "audio_data" /\ tasks[t].pc = "a323io"
     /\ burst' = 0
     /\ AfterTranscribe(t, failed, text, microQ)
     /\ calls' = IF failed THEN Called(calls, "transcribe failed", t, "") ELSE calls
     /\ activeConnections' = IF failed THEN reg.ac ELSE activeConnections
     /\ arrays' = IF failed THEN reg.arrays ELSE arrays
     /\ UNCHANGED <<readyState, connVars, entries, events, eventCurrentId, participants, clock,
                    nanoCount, nMsgs, nSegs>>
     /\ UNCHANGED <<socketOnData, exited, nInvalid, hookVars>>

\* the transcription request completes: it failed, or returned text
TranscribeDone(t, failed, text) ==
  /\ Idle
  /\ tasks[t].kind = "audio_data" /\ tasks[t].pc = "a323io"
  /\ burst' = 0
  /\ AfterTranscribe(t, failed, text, microQ)
  /\ calls' = IF failed THEN Called(calls, "transcribe failed", t, "") ELSE calls
  /\ UNCHANGED <<readyState, connVars, registryVars, events, eventCurrentId, participants, clock, nanoCount, nMsgs, nSegs>>
  /\ UNCHANGED <<socketOnData, exited, nInvalid, hookVars>>

\* a language list that keeps its repetitions
NoDedupe(s) == s

RECURSIVE Unique(_)
\* Array.from(new Set(s)): the distinct values in order of first occurrence
Unique(s) ==
  IF s = << >> THEN << >>
  ELSE LET u == Unique(SubSeq(s, 1, Len(s) - 1))
       IN IF \E i \in 1..Len(u) : u[i] = Last(s) THEN u ELSE Append(u, Last(s))

\* eventConnections.map(c => c.language)
Languages(ents, ids) == [i \in 1..Len(ids) |-> ents[ids[i]].language]

\* eventConnections.filter(c => c.language === lang)
ClientsFor(ents, ids, lang) == SelectSeq(ids, LAMBDA i : ents[i].language = lang)

\* the array a handler holds as eventConnections (0: the literal [])
Held(arrs, a) == IF a = 0 THEN << >> ELSE arrs[a]

\* a job that is held back instead of issuing its request
QueuedJob == [pc |-> "queued", text |-> << >>, record |-> 0, clients |-> << >>, i |-> 0, success |-> FALSE]

NewJob == [pc |-> "t384", text |-> << >>, record |-> 0, clients |-> << >>, i |-> 0, success |-> FALSE]

\* resumes after `await storage.createTranslation` (line 339): 'transcribed',
\* the snapshot of the group, the delivery of the original to the English
\* connections, one translateText call per other language, then
\* `await Promise.allSettled`
Fanout(t) ==
  LET T == tasks[t]
      c == T.conn
      a == IF Has(activeConnections, T.audioEventId) THEN activeConnections[T.audioEventId] ELSE 0
      ids == Held(arrays, a)
      uniqueLanguages == Unique(Languages(entries, ids))
      targets == SelectSeq(uniqueLanguages, LAMBDA l : l # "English")
      clientsForEnglish == ClientsFor(entries, ids, "English")
      msg == [type |-> "translation", seg |-> t, language |-> "English", record |-> T.translation]
      sends == <<<<c, [type |-> "processing_status", status |-> "transcribed", seg |-> t]>>>>
               \o [i \in 1..Len(clientsForEnglish) |-> <<entries[clientsForEnglish[i]].ws, msg>>]
      RECURSIVE CallAll(_, _)
      CallAll(cs, k) == IF k > Len(targets) THEN cs
                        ELSE CallAll(Called(cs, "translate", t, targets[k]), k + 1)
  IN /\ Resumes(t)
     /\ T.kind = "audio_data" /\ T.pc = "a339"
     /\ burst' = 0
     /\ outbox' = SendAll(outbox, readyState, sends)
     /\ calls' = CallAll(calls, 1)
     /\ tasks' = [tasks EXCEPT ![t].pc = "a434", ![t].arr = a, ![t].langs = uniqueLanguages,
                    ![t].jobs = [l \in {targets[k] : k \in 1..Len(targets)} |-> NewJob]]
     /\ microQ' = IF targets = << >> THEN Append(Tail(microQ), <<t, "">>) ELSE Tail(microQ)
     /\ UNCHANGED <<readyState, connVars, registryVars, storeVars, nanoCount, nMsgs, nSegs>>
     /\ UNCHANGED <<socketOnData, exited, nInvalid, hookVars>>

\* a wait that ends with the first job that returns
AnySettled(js) == \E l \in DOMAIN js : js[l].pc = "done"

\* every job of the jobs js has returned
AllSettled(js) == \A l \in DOMAIN js : js[l].pc = "done"

\* the job of language l returns with the given result, having looped over
\* the given clientsForLanguage; the handler resumes from Promise.allSettled
\* when it was the last one
Settle(t, l, ok, clients, q) ==
  LET js == [tasks[t].jobs EXCEPT
               ![l] = [NewJob EXCEPT !.pc = "done", !.success = ok, !.clients = clients]]
  IN /\ tasks' = [tasks EXCEPT ![t].jobs = js]
     /\ microQ' = IF AllSettled(js) THEN Append(q, <<t, "">>) ELSE q

\* lines 398-424 from client number i on: the translated text goes to each
\* client whose transport is OPEN; for one with enableAudio the job then
\* awaits generateSpeech
RECURSIVE DeliverFrom(_, _, _, _, _, _)
DeliverFrom(out, rs, ents, clients, i, msg) ==
  IF i > Len(clients) THEN [out |-> out, i |-> i, speech |-> FALSE]
  ELSE IF rs[ents[clients[i]].ws] # "OPEN"
  THEN DeliverFrom(out, rs, ents, clients, i + 1, msg)
  ELSE IF ents[clients[i]].enableAudio
  THEN [out |-> Send(out, rs, ents[clients[i]].ws, msg), i |-> i, speech |-> TRUE]
  ELSE DeliverFrom(Send(out, rs, ents[clients[i]].ws, msg), rs, ents, clients, i + 1, msg)

\* the delivery loop of job <<t, l>> runs from client i to its next await or
\* to its end
Deliver(t, l, clients, i, q) ==
  LET J == tasks[t].jobs[l]
      msg == [type |-> "translation", seg |-> t, language |-> l, record |-> J.record]
      d == DeliverFrom(outbox, readyState, entries, clients, i, msg)
  IN /\ outbox' = d.out
     /\ IF d.speech
        THEN /\ calls' = Called(calls, "speech", t, l)
             /\ tasks' = [tasks EXCEPT ![t].jobs[l].pc = "t413", ![t].jobs[l].clients = clients,
                            ![t].jobs[l].i = d.i]
             /\ microQ' = q
        ELSE /\ calls' = calls
             /\ Settle(t, l, TRUE, clients, q)

\* the translation request of job <<t, l>> completes (line 384); on success
\* the record is stored (`await storage.createTranslation`, line 387)
TranslateDone(t, l, failed) ==
  LET T == tasks[t]
  IN /\ Idle
     /\ T.kind = "audio_data" /\ l \in DOMAIN T.jobs /\ T.jobs[l].pc = "t384"
     /\ burst' = 0
     /\ IF failed
        THEN /\ Settle(t, l, FALSE, << >>, microQ)
             /\ calls' = Called(calls, "translate failed", t, l)
             /\ UNCHANGED translations
        ELSE /\ calls' = calls
             /\ translations' = CreateTranslation(translations, clock, T.audioEventId,
                                                  T.transcription, <<T.transcription, l>>, l)
             /\ tasks' = [tasks EXCEPT ![t].jobs[l].pc = "t387",
                            ![t].jobs[l].text = <<T.transcription, l>>,
                            ![t].jobs[l].record = Len(translations) + 1]
             /\ microQ' = Append(microQ, <<t, l>>)
     /\ UNCHANGED <<readyState, connVars, registryVars, events, eventCurrentId, participants, clock,
                    nanoCount, outbox, nMsgs, nSegs>>
     /\ UNCHANGED <<socketOnData, exited, nInvalid, hookVars>>

\* job <<t, l>> resumes after `await storage.createTranslation` (line 387)
JobDeliver(t, l) ==
  LET T == tasks[t]
  IN /\ ~exited /\ microQ # << >> /\ Head(microQ) = <<t, l>>
     /\ T.kind = "audio_data" /\ l \in DOMAIN T.jobs /\ T.jobs[l].pc = "t387"
     /\ burst' = 0
     /\ Deliver(t, l, ClientsFor(entries, Held(arrays, T.arr), l), 1, Tail(microQ))
     /\ UNCHANGED <<readyState, connVars, registryVars, storeVars, nanoCount, nMsgs, nSegs>>
     /\ UNCHANGED <<socketOnData, exited, nInvalid, hookVars>>

\* a loop that a failed speech request ends
StopOnFailure(i, failed) == IF failed THEN i + MaxConns + 1 ELSE i + 1

\* lines 399-423: the loop goes on with the client after number i, also when
\* the speech request of client i failed (the error is caught at 420)
NextClient(i, failed) == i + 1

\* line 414: client.ws.send(audio_translation) is called without a look at
\* readyState; a send on a transport that is not OPEN is logged as an attempt
AudioSendAttempt(cs, rs, c, t, l) ==
  IF rs[c] # "OPEN" THEN Called(cs, "send not open", t, l) ELSE cs

\* the speech request of job <<t, l>> completes (line 413): the audio is sent
\* to the client the loop is at (an error is caught at 420), and the loop
\* goes on
SpeechDone(t, l, failed) ==
  LET T == tasks[t]
      J == T.jobs[l]
      client == entries[J.clients[J.i]]
      audio == [type |-> "audio_translation", seg |-> t, language |-> l]
      out1 == IF failed THEN outbox ELSE Send(outbox, readyState, client.ws, audio)
      msg == [type |-> "translation", seg |-> t, language |-> l, record |-> J.record]
      d == DeliverFrom(out1, readyState, entries, J.clients, NextClient(J.i, failed), msg)
      calls1 == IF failed THEN Called(calls, "speech failed", t, l)
                ELSE AudioSendAttempt(calls, readyState, client.ws, t, l)
  IN /\ Idle
     /\ T.kind = "audio_data" /\ l \in DOMAIN T.jobs /\ J.pc = "t413"
     /\ burst' = 0
     /\ outbox' = d.out
     /\ IF d.speech
        THEN /\ calls' = Called(calls1, "speech", t, l)
             /\ tasks' = [tasks EXCEPT ![t].jobs[l].i = d.i]
             /\ microQ' = microQ
        ELSE /\ calls' = calls1
             /\ Settle(t, l, TRUE, J.clients, microQ)
     /\ UNCHANGED <<readyState, connVars, registryVars, storeVars, nanoCount, nMsgs, nSegs>>
     /\ UNCHANGED <<socketOnData, exited, nInvalid, hookVars>>

\* a count that reports no failure
FailedNone(js) == 0

\* lines 437-438
Successful(js) == Cardinality({l \in DOMAIN js : js[l].success})
Failed(js) == Cardinality({l \in DOMAIN js : ~js[l].success})

\* resumes after `await Promise.allSettled` (line 434): the aggregate status
Complete(t) ==
  LET T == tasks[t]
  IN /\ Resumes(t)
     /\ T.kind = "audio_data" /\ T.pc = "a434"
     /\ burst' = 0
     /\ outbox' = Send(outbox, readyState, T.conn,
                       [type |-> "processing_status", status |-> "complete", seg |-> t,
                        successfulTranslations |-> Successful(T.jobs),
                        failedTranslations |-> Failed(T.jobs),
                        totalLanguages |-> Len(T.langs)])
     /\ tasks' = Drop(tasks, t)
     /\ microQ' = Tail(microQ)
     /\ UNCHANGED <<readyState, connVars, registryVars, storeVars, nanoCount, calls, nMsgs, nSegs>>
     /\ UNCHANGED <<socketOnData, exited, nInvalid, hookVars>>

----------------------------------------------------------------------------
(* The registry specification: clients that join and leave, events that are *)
(* created and deleted and participants that are posted over REST.  No step *)
(* of it stores a translation, the one place that reads the clock.          *)

JoinMsgs ==
  [eventId : {"", "1", "2"}, sessionId : {"", "s1"}, language : {""},
   enableAudio : {FALSE}, isOrganizer : BOOLEAN]

\* the bodies of POST /api/participants: eventId, sessionId, language
PostedParticipants == {<<1, "s1", "German">>}

Next ==
  \/ eventCurrentId <= MaxEvents /\ CreateEvent
  \/ \E id \in 1..MaxEvents : DeleteEvent(id)
  \/ \E c \in 1..MaxClients : Connect(c)
  \/ nMsgs + nInvalid < MaxMsgs /\ \E c \in Conns, data \in JoinMsgs : JoinStart(c, data)
  \/ \E p \in PostedParticipants : Len(participants) < MaxPosted /\ PostParticipant(p[1], p[2], p[3])
  \/ \E c \in Conns : MayLeave(c) /\ PeerClose(c)
  \/ \E c \in Conns : PeerProtocolError(c)
  \/ nMsgs + nInvalid < MaxMsgs /\ \E c \in Conns : InvalidMessage(c)
  \/ \E c \in Conns : MayLeave(c) /\ OnClose(c)
  \/ \E t \in DOMAIN tasks : JoinParticipant(t)
  \/ \E t \in DOMAIN tasks : JoinCreated(t)
  \/ \E t \in DOMAIN tasks : JoinRecent(t)
  \/ \E t \in DOMAIN tasks : JoinFinish(t)

Spec == Init /\ [][Next]_vars

----------------------------------------------------------------------------
(* The REST specification: events that are created and deleted again, and   *)
(* participants that are posted, around the joins of one client             *)

MaxRestEvents == 2
MaxRestMsgs == 2

RestParticipants == {<<e, "s1", "German">> : e \in 1..MaxRestEvents}

NextRest ==
  \/ eventCurrentId <= MaxRestEvents /\ CreateEvent
  \/ \E id \in 1..MaxRestEvents : DeleteEvent(id)
  \/ \E p \in RestParticipants : Len(participants) < MaxPosted /\ PostParticipant(p[1], p[2], p[3])
  \/ clock < MaxClock /\ Tick
  \/ Connect(1)
  \/ nMsgs + nInvalid < MaxRestMsgs /\ \E c \in Conns, data \in JoinMsgs : JoinStart(c, data)
  \/ \E c \in Conns : PeerClose(c)
  \/ \E c \in Conns : PeerProtocolError(c)
  \/ nMsgs + nInvalid < MaxRestMsgs /\ \E c \in Conns : InvalidMessage(c)
  \/ \E c \in Conns : OnClose(c)
  \/ \E t \in DOMAIN tasks : JoinParticipant(t)
  \/ \E t \in DOMAIN tasks : JoinCreated(t)
  \/ \E t \in DOMAIN tasks : JoinRecent(t)
  \/ \E t \in DOMAIN tasks : JoinFinish(t)

SpecRest == Init /\ [][NextRest]_vars

----------------------------------------------------------------------------
(* The pipeline specification: an organizer, listeners, and one segment *)

MaxSegs == 1

\* the join message of each client: the organizer's AudioBroadcaster, a
\* participant page with audio, and a third client that is another listener
\* or a participant of another event that replays the organizer's sessionId
PipeJoinMsgs(c) ==
  CASE c = 1 -> {[eventId |-> "1", sessionId |-> "s1", language |-> "", enableAudio |-> FALSE, isOrganizer |-> TRUE]}
    [] c = 2 -> {[eventId |-> "1", sessionId |-> "", language |-> "Spanish", enableAudio |-> TRUE, isOrganizer |-> FALSE]}
    [] OTHER -> {[eventId |-> "1", sessionId |-> "", language |-> "Spanish", enableAudio |-> TRUE, isOrganizer |-> FALSE],
                 [eventId |-> "1", sessionId |-> "", language |-> "French", enableAudio |-> FALSE, isOrganizer |-> FALSE],
                 [eventId |-> "2", sessionId |-> "s1", language |-> "", enableAudio |-> FALSE, isOrganizer |-> FALSE]}

\* payloads that are empty, below AudioMinChars, below BufferMinBytes once
\* decoded, and above
AudioMsgs == [eventId : {"1", "2"}, audioLen : {0, 10, 60, 200}]

Outcomes == {<<TRUE, "">>, <<FALSE, "">>, <<FALSE, " ">>, <<FALSE, "text">>}

JobsOf(t) == IF tasks[t].kind = "audio_data" THEN DOMAIN tasks[t].jobs ELSE {}

\* a client joins once, when its socket opens
NotJoined(c) == sessionId[c] = ""

PipelineStep ==
  \/ \E t \in DOMAIN tasks : JoinParticipant(t)
  \/ \E t \in DOMAIN tasks : JoinCreated(t)
  \/ \E t \in DOMAIN tasks : JoinRecent(t)
  \/ \E t \in DOMAIN tasks : JoinFinish(t)
  \/ \E t \in DOMAIN tasks, throws \in BOOLEAN : AudioChecks(t, throws)
  \/ \E t \in DOMAIN tasks : TranscribeShort(t)
  \/ \E t \in DOMAIN tasks : TranscribeThrows(t)
  \/ \E t \in DOMAIN tasks, o \in Outcomes :
        TranscribeDone(t, o[1], IF o[2] = "text" THEN SegText(t) ELSE o[2])
  \/ \E t \in DOMAIN tasks : Fanout(t)
  \/ \E t \in DOMAIN tasks : \E l \in JobsOf(t), failed \in BOOLEAN : TranslateDone(t, l, failed)
  \/ \E t \in DOMAIN tasks : \E l \in JobsOf(t) : JobDeliver(t, l)
  \/ \E t \in DOMAIN tasks : \E l \in JobsOf(t), failed \in BOOLEAN : SpeechDone(t, l, failed)
  \/ \E t \in DOMAIN tasks : Complete(t)

NextPipeline ==
  \/ eventCurrentId <= MaxEvents /\ CreateEvent
  \/ clock < MaxClock /\ Tick
  \/ \E c \in Conns : events # {} /\ Connect(c)
  \/ \E c \in Conns : \E data \in PipeJoinMsgs(c) : NotJoined(c) /\ JoinStart(c, data)
  \/ nSegs + nInvalid < MaxSegs /\ \E c \in Conns, data \in AudioMsgs : AudioData(c, data)
  \/ \E c \in Conns : MayLeave(c) /\ PeerClose(c)
  \/ \E c \in Conns : PeerProtocolError(c)
  \/ nSegs + nInvalid < MaxSegs /\ \E c \in Conns : InvalidMessage(c)
  \/ \E c \in Conns : MayLeave(c) /\ OnClose(c)
  \/ PipelineStep

SpecPipeline == Init /\ [][NextPipeline]_vars

----------------------------------------------------------------------------
(* The overlap specification: the organizer and one listener, and segments  *)
(* that arrive while earlier ones are in the pipeline                       *)

MaxOverlapConns == 2
MaxOverlapSegs == 2

\* the payloads of the pipeline specification
OverlapAudioMsgs == AudioMsgs

NextOverlap ==
  \/ eventCurrentId <= MaxEvents /\ CreateEvent
  \/ clock < MaxClock /\ Tick
  \/ \E c \in 1..MaxOverlapConns : events # {} /\ Connect(c)
  \/ \E c \in Conns : \E data \in PipeJoinMsgs(c) : NotJoined(c) /\ JoinStart(c, data)
  \/ nSegs + nInvalid < MaxOverlapSegs /\ \E c \in Conns, data \in OverlapAudioMsgs : AudioData(c, data)
  \/ \E c \in Conns : MayLeave(c) /\ PeerClose(c)
  \/ \E c \in Conns : PeerProtocolError(c)
  \/ nSegs + nInvalid < MaxOverlapSegs /\ \E c \in Conns : InvalidMessage(c)
  \/ \E c \in Conns : MayLeave(c) /\ OnClose(c)
  \/ PipelineStep

SpecOverlap == Init /\ [][NextOverlap]_vars

----------------------------------------------------------------------------
(* The reconnect specification: the organizer, one listener, and a second   *)
(* socket of that listener that joins with the listener's sessionId, and    *)
(* one segment                                                              *)

\* the join message of each client; the third is the listener's page
\* connecting again with the sessionId it was given
ReconnectJoinMsgs(c) ==
  CASE c = 1 -> {[eventId |-> "1", sessionId |-> "s1", language |-> "", enableAudio |-> FALSE, isOrganizer |-> TRUE]}
    [] c = 2 -> {[eventId |-> "1", sessionId |-> "", language |-> "Spanish", enableAudio |-> FALSE, isOrganizer |-> FALSE]}
    [] OTHER -> {[eventId |-> "1", sessionId |-> sessionId[2], language |-> "Spanish", enableAudio |-> en, isOrganizer |-> FALSE] :
                   en \in BOOLEAN}

NextReconnect ==
  \/ eventCurrentId <= MaxEvents /\ CreateEvent
  \/ clock < MaxClock /\ Tick
  \/ \E c \in Conns : events # {} /\ Connect(c)
  \/ \E c \in Conns : \E data \in ReconnectJoinMsgs(c) :
       NotJoined(c) /\ (c = 3 => ~NotJoined(2)) /\ JoinStart(c, data)
  \/ nSegs + nInvalid < MaxSegs /\ \E c \in Conns, data \in OverlapAudioMsgs : AudioData(c, data)
  \/ \E c \in Conns : MayLeave(c) /\ PeerClose(c)
  \/ \E c \in Conns : PeerProtocolError(c)
  \/ nSegs + nInvalid < MaxSegs /\ \E c \in Conns : InvalidMessage(c)
  \/ \E c \in Conns : MayLeave(c) /\ OnClose(c)
  \/ PipelineStep

SpecReconnect == Init /\ [][NextReconnect]_vars

----------------------------------------------------------------------------

(* The termination specification: the organizer and a Spanish listener     *)
(* with audio, and an event loop that runs every continuation that is ready *)
(* and every external call that is pending to its return                    *)

MaxLiveConns == 2

NextLive ==
  \/ eventCurrentId <= MaxEvents /\ CreateEvent
  \/ clock < MaxClock /\ Tick
  \/ \E c \in 1..MaxLiveConns : events # {} /\ Connect(c)
  \/ \E c \in Conns : \E data \in PipeJoinMsgs(c) : NotJoined(c) /\ JoinStart(c, data)
  \/ nSegs + nInvalid < MaxSegs /\ \E c \in Conns, data \in AudioMsgs : AudioData(c, data)
  \/ \E c \in Conns : MayLeave(c) /\ PeerClose(c)
  \/ \E c \in Conns : PeerProtocolError(c)
  \/ nSegs + nInvalid < MaxSegs /\ \E c \in Conns : InvalidMessage(c)
  \/ \E c \in Conns : MayLeave(c) /\ OnClose(c)
  \/ PipelineStep

SpecLive == Init /\ [][NextLive]_vars /\ WF_vars(PipelineStep)

----------------------------------------------------------------------------

(* The client: the hook useWebSocket (client/src/hooks/useWebSocket.ts) as  *)
(* used by AudioBroadcaster and by the participant page                     *)
(*                                                                          *)
(* A function of a component sees the state of the render that created it:  *)
(* connect() is called by the effect of the first render and by the timers  *)
(* that its own onclose sets, so the onOpen it installs reads the           *)
(* `connected` of the first render; the connect the hook returns to the     *)
(* page is the one of the current render.  Each socket and timer carries    *)
(* the `connected` its closure has seen (`seen`).                           *)

\* the option reconnectAttempts
ReconnectAttempts == 2
MaxSockets == 3
MaxSent == 3

Pages == {"AudioBroadcaster", "ParticipantInterface"}

\* line 64, line 89: reconnectCount.current < reconnectAttempts (autoReconnect is true)
CanRetry(count) == count < ReconnectAttempts

\* new WebSocket(url)
NewSocket(seen) == [readyState |-> "CONNECTING", seen |-> seen, sent |-> << >>]

\* setTimeout(() => connect(), delay)
ReconnectTimer(seen) == [kind |-> "reconnect", seen |-> seen, socket |-> 0, pending |-> TRUE]

\* setTimeout(() => sendMessage(join), 500) in the onOpen of the participant page
JoinTimer(seen, s) == [kind |-> "join", seen |-> seen, socket |-> s, pending |-> TRUE]

\* clearTimeout(k), and a timeout that has run
Cleared(tms, k) == IF k = 0 THEN tms ELSE [tms EXCEPT ![k].pending = FALSE]

\* socket.send(msg) in the browser: the message is discarded unless the
\* socket is OPEN
SocketSend(socks, s, msg) ==
  IF socks[s].readyState = "OPEN" THEN [socks EXCEPT ![s].sent = Append(@, msg)] ELSE socks

\* AudioBroadcaster lines 22-32: if (connected) connected.send(join), with the
\* `connected` the closure has seen
BroadcasterOnOpen(socks, seen) ==
  IF seen # 0 THEN SocketSend(socks, seen, [type |-> "join", isOrganizer |-> TRUE]) ELSE socks

\* the participant page, lines 475-479 called from 448: sendMessage(join), with
\* the `connected` the closure has seen
SendMessage(socks, seen, msg) ==
  IF seen # 0 THEN SocketSend(socks, seen, msg) ELSE socks

\* the participant page, lines 482-499: the effects with the dependencies
\* [selectedLanguage, connected, sessionId] and [enableAudio, connected,
\* sessionId]; each sends its message when `connected` is not null (sessionId
\* is never empty, lines 284-288)
EffectsOf(p) == IF p = "ParticipantInterface" THEN {"update_language", "toggle_audio"} ELSE {}

\* the effects in eff run, in the order of their declaration, in a render
\* whose `connected` is s
PageEffects(socks, s, eff) ==
  LET first == IF "update_language" \in eff
               THEN SocketSend(socks, s, [type |-> "update_language"]) ELSE socks
  IN IF "toggle_audio" \in eff THEN SocketSend(first, s, [type |-> "toggle_audio"]) ELSE first

\* lines 31-97: connect() of a closure that has seen `seen`; throws tells
\* whether new WebSocket(url) threw; byTimer tells whether a reconnect timeout
\* made the call
HookConnect(seen, throws, byTimer, socks, tms) ==
  IF wsRef # 0 /\ socks[wsRef].readyState = "OPEN"
  THEN [ws |-> wsRef, count |-> reconnectCount, ref |-> reconnectTimeoutRef,
        sockets |-> socks, timers |-> tms, attempts |-> attempts, error |-> error]
  ELSE IF throws
  THEN IF CanRetry(reconnectCount)
       THEN [ws |-> wsRef, count |-> reconnectCount + 1, ref |-> Len(tms) + 1,
             sockets |-> socks, timers |-> Append(tms, ReconnectTimer(seen)),
             attempts |-> attempts, error |-> TRUE]
       ELSE [ws |-> wsRef, count |-> reconnectCount, ref |-> reconnectTimeoutRef,
             sockets |-> socks, timers |-> tms, attempts |-> attempts, error |-> TRUE]
  ELSE [ws |-> Len(socks) + 1, count |-> reconnectCount, ref |-> reconnectTimeoutRef,
        sockets |-> Append(socks, NewSocket(seen)), timers |-> tms,
        attempts |-> IF byTimer THEN attempts + 1 ELSE attempts, error |-> error]

\* the result r of connect() becomes the state of the hook; a state of a
\* component that is not mounted (live is false) is not set
Connected(r, live) ==
  /\ wsRef' = r.ws
  /\ reconnectCount' = r.count
  /\ reconnectTimeoutRef' = r.ref
  /\ sockets' = r.sockets
  /\ timers' = r.timers
  /\ attempts' = r.attempts
  /\ error' = IF live THEN r.error ELSE error

\* the component mounts: the effect of lines 110-116 calls connect(); the
\* effects of the page run in the same commit, with `connected` null
Mount(p, throws) ==
  /\ page = ""
  /\ page' = p
  /\ mounted' = TRUE
  /\ Connected(HookConnect(0, throws, FALSE, sockets, timers), TRUE)
  /\ UNCHANGED <<connected, connectionStatus, connectionError, effects, serverVars>>

\* socket.onopen (lines 38-44) of socket s and the onOpen of the page;
\* setConnected(socket) changes a dependency of the effects of the page
SocketOnOpen(s) ==
  LET opened == [sockets EXCEPT ![s].readyState = "OPEN"]
      seen == sockets[s].seen
  IN /\ sockets[s].readyState = "CONNECTING"
     /\ connected' = IF mounted THEN s ELSE connected
     /\ error' = IF mounted THEN FALSE ELSE error
     /\ effects' = IF mounted THEN EffectsOf(page) ELSE effects
     /\ reconnectCount' = 0
     /\ attempts' = 0
     /\ IF page = "AudioBroadcaster"
        THEN /\ sockets' = BroadcasterOnOpen(opened, seen)
             /\ UNCHANGED <<timers, connectionStatus, connectionError>>
        ELSE /\ sockets' = opened
             /\ timers' = Append(timers, JoinTimer(seen, s))
             /\ connectionStatus' = IF mounted THEN "connected" ELSE connectionStatus
             /\ connectionError' = IF mounted THEN FALSE ELSE connectionError
     /\ UNCHANGED <<page, mounted, wsRef, reconnectTimeoutRef, serverVars>>

\* the page has rendered with the state as it is now, and the effects whose
\* dependencies have changed run (lines 482-499)
RunEffects ==
  /\ mounted
  /\ effects # {}
  /\ effects' = {}
  /\ sockets' = IF connected # 0 THEN PageEffects(sockets, connected, effects) ELSE sockets
  /\ UNCHANGED <<page, mounted, wsRef, reconnectCount, reconnectTimeoutRef, connected,
                 connectionStatus, connectionError, error, timers, attempts, serverVars>>

\* the user selects another language (line 538) or switches the audio
\* preference (lines 593-598; the switch is disabled unless the status is
\* "joined"): a dependency of one effect changes. React runs the effects that
\* are pending before it handles an event of the user.
SetPreference(e) ==
  /\ mounted /\ page = "ParticipantInterface"
  /\ e = "toggle_audio" => connectionStatus = "joined"
  /\ effects = {}
  /\ effects' = effects \cup {e}
  /\ UNCHANGED <<page, mounted, wsRef, reconnectCount, reconnectTimeoutRef, connected,
                 connectionStatus, connectionError, error, sockets, timers, attempts,
                 serverVars>>

\* the timeout of line 447 runs
JoinTimeout(k) ==
  /\ timers[k].pending /\ timers[k].kind = "join"
  /\ timers' = Cleared(timers, k)
  /\ sockets' = SendMessage(sockets, timers[k].seen, [type |-> "join", isOrganizer |-> FALSE])
  /\ UNCHANGED <<page, mounted, wsRef, reconnectCount, reconnectTimeoutRef, connected,
                 connectionStatus, connectionError, error, effects, attempts, serverVars>>

\* the messages of the server by what the onMessage of the page does with
\* them (lines 348-435); "translation" stands for the types that set no
\* state of the connection
ServerMessages == {"connection_established", "session_joined", "error", "translation"}

\* socket.onmessage (lines 46-57) of socket s and the onMessage of the page.
\* session_joined carries the sessionId the page has sent, so setSessionId
\* changes no dependency of the effects.
SocketOnMessage(s, type) ==
  LET page1 == mounted /\ page = "ParticipantInterface"
  IN /\ sockets[s].readyState \in {"OPEN", "CLOSING"}
     /\ connectionStatus' =
          IF page1 /\ type = "connection_established" THEN "established"
          ELSE IF page1 /\ type = "session_joined" THEN "joined"
          ELSE connectionStatus
     /\ connectionError' =
          IF page1 /\ type \in {"connection_established", "session_joined"} THEN FALSE
          ELSE IF page1 /\ type = "error" THEN TRUE
          ELSE connectionError
     /\ UNCHANGED <<page, mounted, wsRef, reconnectCount, reconnectTimeoutRef, connected,
                    error, effects, sockets, timers, attempts, serverVars>>

\* the close event of socket s: the connection failed, or was closed by the
\* server, the network or close(). When the connection failed (failed), the
\* browser fires the error event and then the close event in one task:
\* socket.onerror (lines 77-81) with the onError of the page (lines 465-469)
\* runs first, socket.onclose (lines 59-75) with the onClose of the page
\* (lines 457-464) second. normal tells whether the code of the close event
\* is 1000 (line 461); the code of a failed connection is 1006.
SocketOnClose(s, failed, normal) ==
  LET closed == [sockets EXCEPT ![s].readyState = "CLOSED"]
      page1 == mounted /\ page = "ParticipantInterface"
  IN /\ sockets[s].readyState \in {"CONNECTING", "OPEN", "CLOSING"}
     /\ failed => ~normal
     /\ sockets' = closed
     /\ error' = IF mounted /\ failed THEN TRUE ELSE error
     /\ connected' = IF mounted THEN 0 ELSE connected
     /\ effects' = IF mounted /\ connected # 0 THEN EffectsOf(page) ELSE effects
     /\ connectionStatus' = IF page1 THEN "disconnected" ELSE connectionStatus
     /\ connectionError' = IF page1 /\ ~normal THEN TRUE ELSE connectionError
     /\ IF CanRetry(reconnectCount)
        THEN /\ reconnectCount' = reconnectCount + 1
             /\ timers' = Append(timers, ReconnectTimer(sockets[s].seen))
             /\ reconnectTimeoutRef' = Len(timers) + 1
        ELSE UNCHANGED <<reconnectCount, timers, reconnectTimeoutRef>>
     /\ UNCHANGED <<page, mounted, wsRef, attempts, serverVars>>

\* the timeout of line 69 or of line 91 runs: connect()
ReconnectTimeout(k, throws) ==
  /\ timers[k].pending /\ timers[k].kind = "reconnect"
  /\ Connected(HookConnect(timers[k].seen, throws, TRUE, sockets, Cleared(timers, k)), mounted)
  /\ UNCHANGED <<page, mounted, connected, connectionStatus, connectionError, effects,
                 serverVars>>

\* the Reconnect button of the participant page (lines 615-641), rendered
\* while wsError or connectionError is set and the status is "disconnected"
\* or "error": reconnectWebSocket() is the connect of the current render, of
\* which the effects have run
ReconnectWebSocket(throws) ==
  /\ mounted /\ page = "ParticipantInterface"
  /\ error \/ connectionError
  /\ connectionStatus \in {"disconnected", "error"}
  /\ effects = {}
  /\ Connected(HookConnect(connected, throws, FALSE, sockets, timers), mounted)
  /\ connectionStatus' = "connecting"
  /\ connectionError' = FALSE
  /\ UNCHANGED <<page, mounted, connected, effects, serverVars>>

\* the component unmounts: the cleanup of the effect calls disconnect()
\* (lines 99-108)
Unmount ==
  /\ mounted
  /\ mounted' = FALSE
  /\ effects' = {}
  /\ timers' = Cleared(timers, reconnectTimeoutRef)
  /\ reconnectTimeoutRef' = 0
  /\ sockets' = IF wsRef # 0 /\ sockets[wsRef].readyState = "OPEN"
                THEN [sockets EXCEPT ![wsRef].readyState = "CLOSING"] ELSE sockets
  /\ UNCHANGED <<page, wsRef, reconnectCount, connected, connectionStatus, connectionError,
                 error, attempts, serverVars>>

\* the messages the client has sent on its sockets
SentOn == {p \in (DOMAIN sockets) \X (1..(2 * MaxSent)) : p[2] <= Len(sockets[p[1]].sent)}

\* the user changes a preference while the client has sent fewer than MaxSent
\* messages
MaySend == Cardinality(SentOn) < MaxSent

NextHook ==
  \/ \E p \in Pages, throws \in BOOLEAN : Mount(p, throws)
  \/ \E s \in DOMAIN sockets : SocketOnOpen(s)
  \/ RunEffects
  \/ \E e \in EffectsOf(page) : MaySend /\ SetPreference(e)
  \/ \E s \in DOMAIN sockets, type \in ServerMessages : SocketOnMessage(s, type)
  \/ \E s \in DOMAIN sockets, failed, normal \in BOOLEAN : SocketOnClose(s, failed, normal)
  \/ \E k \in DOMAIN timers : JoinTimeout(k)
  \/ \E k \in DOMAIN timers, throws \in BOOLEAN :
        Len(sockets) < MaxSockets /\ ReconnectTimeout(k, throws)
  \/ \E throws \in BOOLEAN : Len(sockets) < MaxSockets /\ ReconnectWebSocket(throws)
  \/ Unmount

SpecHook == Init /\ [][NextHook]_vars

(* The retry specification: the participant page stays mounted, and        *)
(* new WebSocket(url) does not throw, as for the url the page builds       *)

MaxRetrySockets == 5
MaxRetryOpens == 2

\* the sockets that have opened: the onOpen of the page sets a join timeout
\* for each
Opened == {k \in DOMAIN timers : timers[k].kind = "join"}

NextRetry ==
  \/ Mount("ParticipantInterface", FALSE)
  \/ \E s \in DOMAIN sockets : Cardinality(Opened) < MaxRetryOpens /\ SocketOnOpen(s)
  \/ RunEffects
  \/ \E e \in EffectsOf(page) : MaySend /\ SetPreference(e)
  \/ \E s \in DOMAIN sockets, type \in ServerMessages : SocketOnMessage(s, type)
  \/ \E s \in DOMAIN sockets, failed, normal \in BOOLEAN : SocketOnClose(s, failed, normal)
  \/ \E k \in DOMAIN timers : JoinTimeout(k)
  \/ \E k \in DOMAIN timers : Len(sockets) < MaxRetrySockets /\ ReconnectTimeout(k, FALSE)
  \/ Len(sockets) < MaxRetrySockets /\ ReconnectWebSocket(FALSE)

SpecRetry == Init /\ [][NextRetry]_vars

----------------------------------------------------------------------------

(* The store specification: records are created while the clock advances,   *)
(* and then getRecentTranslations is called with a limit                    *)

MaxRecords == 11
MaxMixed == 3
MaxLimit == 2
MaxStoreClock == 3

\* the limits of the calls: small ones, and the one the join handler passes
Limits == 0..MaxLimit \cup {RecentLimit}

\* storage.createTranslation for a record of event eid
StoreCreate(eid) ==
  /\ Len(translations) < MaxRecords
  /\ eid # 1 => Len(translations) < MaxMixed
  /\ translations' = CreateTranslation(translations, clock, eid, SegText(1), << >>, "English")
  /\ UNCHANGED <<readyState, connVars, registryVars, events, eventCurrentId, participants, clock,
                 nanoCount, schedVars, outbox, calls, nMsgs, nSegs>>
  /\ UNCHANGED <<socketOnData, exited, nInvalid, hookVars>>

\* storage.getRecentTranslations(eid, limit): the call and its result
StoreQuery(eid, limit) ==
  /\ tasks' = [q \in {0} |->
                 [kind |-> "getRecentTranslations", eventId |-> eid, limit |-> limit,
                  result |-> GetRecentTranslations(translations, eid, limit)]]
  /\ UNCHANGED <<readyState, connVars, registryVars, storeVars, nanoCount, microQ, burst,
                 outbox, calls, nMsgs, nSegs>>
  /\ UNCHANGED <<socketOnData, exited, nInvalid, hookVars>>

NextStore ==
  \/ DOMAIN tasks = {} /\ clock < MaxStoreClock /\ Tick
  \/ \E eid \in {1, 2} : DOMAIN tasks = {} /\ StoreCreate(eid)
  \/ \E eid \in {1, 2}, limit \in Limits : StoreQuery(eid, limit)

SpecStore == Init /\ [][NextStore]_vars

----------------------------------------------------------------------------

(* Properties of the registry, checked under Spec *)

\* the entries of event e that carry sessionId sid
WithSession(e, sid) == {i \in 1..Len(GroupIds(e)) : Group(e)[i].sessionId = sid}

\* C1: in every reachable state no event group holds two entries with the
\* same sessionId
C1_OneEntryPerSession ==
  \A e \in DOMAIN activeConnections : \A i, j \in 1..Len(GroupIds(e)) :
    i # j => Group(e)[i].sessionId # Group(e)[j].sessionId

\* a connection has been superseded by another one that joined under its
\* session, and the group has gone on to hold a second session
C1_Witness ==
  \E a, b \in Conns :
    /\ a # b
    /\ readyState[a] = "CLOSING"
    /\ Len(GroupIds(eventId[a])) = 2
    /\ \E i \in WithSession(eventId[a], sessionId[a]) : Group(eventId[a])[i].ws = b

\* C2: when connection b has joined with the (eventId, sessionId) of a
\* connection a whose transport is thereby closed, the group holds exactly one
\* entry of that sessionId and its transport is b, for as long as b stays
\* open under that session
C2_SupersederRegistered ==
  \A a, b \in Conns :
    (/\ a # b
     /\ readyState[a] \in {"CLOSING", "CLOSED"}
     /\ readyState[b] = "OPEN"
     /\ sessionId[b] # ""
     /\ sessionId[a] = sessionId[b]
     /\ eventId[a] = eventId[b])
    => /\ Cardinality(WithSession(eventId[b], sessionId[b])) = 1
       /\ \A i \in WithSession(eventId[b], sessionId[b]) : Group(eventId[b])[i].ws = b

\* C3: once the close event of a connection has been handled, no entry of the
\* registry has that connection as its transport
C3_ClosedIsUnregistered ==
  \A c \in Conns : readyState[c] = "CLOSED" =>
    \A e \in DOMAIN activeConnections : \A i \in 1..Len(GroupIds(e)) : Group(e)[i].ws # c

\* no group of the registry is empty
NoEmptyGroup == \A e \in DOMAIN activeConnections : Len(GroupIds(e)) > 0

\* the close of a connection whose session holds every entry of its group
\* deletes the group
LastCloseDeletes ==
  \A c \in Conns :
    (/\ readyState[c] # "CLOSED" /\ readyState'[c] = "CLOSED"
     /\ TruthyNum(eventId[c])
     /\ Has(activeConnections, eventId[c])
     /\ \A i \in 1..Len(GroupIds(eventId[c])) : Group(eventId[c])[i].sessionId = sessionId[c])
    => ~Has(activeConnections', eventId[c])

\* a join to an event that has no group creates a group of the new entry alone
JoinCreatesFresh ==
  \A c \in Conns :
    (/\ Len(entries') = Len(entries) + 1
     /\ entries'[Len(entries')].ws = c
     /\ ~Has(activeConnections, eventId'[c]))
    => /\ Has(activeConnections', eventId'[c])
       /\ arrays'[activeConnections'[eventId'[c]]] = <<Len(entries')>>

\* C4: no group with zero entries is stored; the close that removes the last
\* entry deletes the group, and a later join to the event creates a fresh
\* group holding exactly the new entry
C4_NoEmptyGroup == []NoEmptyGroup /\ [][LastCloseDeletes /\ JoinCreatesFresh]_vars

\* the only entry of an event was removed by its close, and a later join has
\* created the group of that event again
C4_Witness ==
  /\ Len(entries) = 2 /\ Len(arrays) = 2
  /\ arrays[1] = <<1>> /\ arrays[2] = <<2>>
  /\ readyState[entries[1].ws] = "CLOSED"
  /\ DOMAIN activeConnections = {eventId[entries[1].ws]}
  /\ activeConnections[eventId[entries[1].ws]] = 2

\* C5: in every group participantCount + organizerCount equals the number of
\* entries whose connection has not been closed: each entry is counted once
\* and no entry of a closed connection is counted
C5_CountsLiveEntries ==
  \A e \in DOMAIN activeConnections :
    ParticipantCount(entries, GroupIds(e)) + OrganizerCount(entries, GroupIds(e))
      = Cardinality({i \in 1..Len(GroupIds(e)) : readyState[Group(e)[i].ws] # "CLOSED"})

\* the participant_count messages connection c has received
Counts(c) == {k \in 1..Len(outbox[c]) : outbox[c][k].type = "participant_count"}

\* the count of the last of them
LastCount(c) == outbox[c][CHOOSE k \in Counts(c) : \A j \in Counts(c) : j <= k].count

\* C6: when no join or close is being handled, the last participant_count
\* received by every open registered connection is the number of participant
\* entries of its group
C6_LastCountCurrent ==
  DOMAIN tasks = {} =>
    \A e \in DOMAIN activeConnections : \A i \in 1..Len(GroupIds(e)) :
      readyState[Group(e)[i].ws] = "OPEN" =>
        /\ Counts(Group(e)[i].ws) # {}
        /\ LastCount(Group(e)[i].ws) = ParticipantCount(entries, GroupIds(e))

----------------------------------------------------------------------------
(* Properties of the pipeline, checked under SpecPipeline and SpecOverlap *)

\* connection c itself has an organizer entry in the group of event e
RegisteredOrganizer(c, e) ==
  \E i \in 1..Len(GroupIds(e)) : Group(e)[i].ws = c /\ Group(e)[i].isOrganizer

\* the handler invocations of audio_data messages
Segments == {t \in DOMAIN tasks : tasks[t].kind = "audio_data"}

\* C7: a transcription call is issued for an audio_data message only when the
\* sending connection itself is registered as organizer in the event the
\* message names
C7_OnlyOrganizerTranscribes ==
  [][\A t \in Segments :
       CallCount("transcribe", t, "")' > CallCount("transcribe", t, "")
         => RegisteredOrganizer(tasks[t].conn, tasks[t].audioEventId)]_vars

\* C8: while the handler of an earlier segment of a connection has not sent
\* its terminal status, no transcription call has been issued for a later
\* segment of that connection
C8_OneSegmentAtATime ==
  \A t1, t2 \in Segments :
    (t1 < t2 /\ tasks[t1].conn = tasks[t2].conn) => CallCount("transcribe", t2, "") = 0

\* the segment a record belongs to
SegOf(r) == CHOOSE t \in 1..8 : SegText(t) = r.originalText

\* the translation messages connection c has received
Translated(c) == {k \in 1..Len(outbox[c]) : outbox[c][k].type = "translation"}

\* C9: every connection receives the translation messages in the order of
\* their segments, and the records are created in the order of their segments
C9_SegmentOrder ==
  /\ \A c \in Conns : \A j, k \in Translated(c) :
       j < k => outbox[c][j].seg <= outbox[c][k].seg
  /\ \A j, k \in 1..Len(translations) :
       j < k => SegOf(translations[j]) <= SegOf(translations[k])

\* C10: for each segment and language the speech service is called at most
\* once
C10_OneSpeechPerLanguage ==
  \A k \in DOMAIN calls : k[1] = "speech" => calls[k] <= 1

----------------------------------------------------------------------------
(* Properties of the error paths and of the fan-out *)

\* the messages a step appends to the outbox of connection c
NewMessages(c) == Len(outbox[c]) + 1 .. Len(outbox'[c])

\* C11: a message that names an event unknown to the store has no side
\* effect: no step of a handler creates a group of the registry for an event
\* the store does not hold, creates a participant record that names one,
\* sends a session_joined for one, or issues a transcription request for one
\* (events deleted later and participants posted over REST are not effects
\* of a message)
C11_UnknownEventNoEffect ==
  [][/\ \A e \in DOMAIN activeConnections' \ DOMAIN activeConnections : e \in events
     /\ (Len(participants') > Len(participants) /\ tasks' # tasks)
          => participants'[Len(participants')].eventId \in events
     /\ \A c \in Conns : \A k \in NewMessages(c) :
          outbox'[c][k].type = "session_joined" => outbox'[c][k].eventId \in events
     /\ \A t \in Segments :
          CallCount("transcribe", t, "")' > CallCount("transcribe", t, "")
            => tasks[t].audioEventId \in events]_vars

\* the aggregate statuses connection c has received
Aggregates(c) ==
  {k \in 1..Len(outbox[c]) :
     /\ outbox[c][k].type = "processing_status"
     /\ outbox[c][k].status = "complete"
     /\ "totalLanguages" \in DOMAIN outbox[c][k]}

\* C12: in every aggregate status the succeeded and failed counts add up to
\* the reported total language count
C12_CountsAddUp ==
  \A c \in Conns : \A k \in Aggregates(c) :
    outbox[c][k].successfulTranslations + outbox[c][k].failedTranslations
      = outbox[c][k].totalLanguages

\* the languages a connection can register
LanguageNames == {"English", "Spanish", "French"}

\* the languages other than English of the entries of event e
TargetsOf(e) == {Group(e)[i].language : i \in 1..Len(GroupIds(e))} \ {"English"}

\* segment t goes from the creation of its English record into its fan-out
FanoutStep(t) ==
  /\ tasks[t].pc = "a339"
  /\ t \in DOMAIN tasks' /\ tasks'[t].pc = "a434"

\* the fan-out of a segment issues one translation request for each language
\* other than English that is registered in the event at that moment
OneCallPerTarget ==
  \A t \in Segments : FanoutStep(t) =>
    \A l \in LanguageNames :
      CallCount("translate", t, l)' =
        IF l \in TargetsOf(tasks[t].audioEventId) THEN 1 ELSE 0

\* no translation request is repeated, and none is for English
NoOtherCall ==
  \A k \in DOMAIN calls : k[1] = "translate" => calls[k] = 1 /\ k[3] # "English"

\* C13: a segment with non-empty transcription issues exactly one translation
\* request per distinct registered language other than English and none for
\* English, however many connections share a language
C13_OneTranslationPerLanguage == []NoOtherCall /\ [][OneCallPerTarget]_vars

\* a segment has fanned out to a group in which two entries share Spanish
C13_Witness ==
  \E t \in Segments :
    /\ tasks[t].pc = "a434"
    /\ Cardinality({i \in 1..Len(Held(arrays, tasks[t].arr)) :
                      entries[Held(arrays, tasks[t].arr)[i]].language = "Spanish"}) = 2
    /\ CallCount("translate", t, "Spanish") = 1
    /\ CallCount("translate", t, "English") = 0

\* the handler of segment t sends the aggregate status and returns
CompleteStep(t) == tasks[t].pc = "a434" /\ t \notin DOMAIN tasks'

\* the store holds a record of segment t in language l
HasRecord(t, l) ==
  \E i \in 1..Len(translations) :
    translations[i].language = l /\ translations[i].originalText = SegText(t)

\* connection c has received the text of segment t in language l
GotText(c, t, l) ==
  \E k \in 1..Len(outbox[c]) :
    /\ outbox[c][k].type = "translation"
    /\ outbox[c][k].seg = t /\ outbox[c][k].language = l

\* the target languages of segment t whose translation request failed
FailedTargets(t) == {l \in DOMAIN tasks[t].jobs : CallCount("translate failed", t, l) > 0}

\* every client the job of language l looped over (the entries of the group
\* that had language l when the record was stored) whose transport is open
\* has received the text of segment t in language l
TextReached(t, l) ==
  \A i \in 1..Len(tasks[t].jobs[l].clients) :
    LET en == entries[tasks[t].jobs[l].clients[i]]
    IN readyState[en.ws] = "OPEN" => GotText(en.ws, t, l)

\* when the handler of a segment returns from its fan-out: a language has no
\* record exactly when its translation request failed, every other language
\* has been delivered, and the aggregate status counts the failed requests as
\* failed and the others as succeeded
FailuresAreIsolated ==
  \A t \in Segments : CompleteStep(t) =>
    /\ \A l \in DOMAIN tasks[t].jobs : HasRecord(t, l) <=> l \notin FailedTargets(t)
    /\ \A l \in DOMAIN tasks[t].jobs \ FailedTargets(t) : TextReached(t, l)
    /\ readyState[tasks[t].conn] = "OPEN" =>
         LET m == outbox'[tasks[t].conn][Len(outbox'[tasks[t].conn])]
         IN /\ m.type = "processing_status" /\ m.status = "complete" /\ m.seg = t
            /\ m.failedTranslations = Cardinality(FailedTargets(t))
            /\ m.successfulTranslations =
                 Cardinality(DOMAIN tasks[t].jobs) - Cardinality(FailedTargets(t))

\* C14: the failure of the translation of one target language leaves the
\* records and the text delivery of the other target languages in place, and
\* the one aggregate status reports it as failed and the others as succeeded
C14_FailureIsolation == [][FailuresAreIsolated]_vars

\* of two target languages one has failed and the other has been stored and
\* delivered, and the status reports one failed and one succeeded
C14_Witness ==
  \E c \in Conns : \E k \in Aggregates(c) :
    /\ outbox[c][k].failedTranslations = 1
    /\ outbox[c][k].successfulTranslations = 1
    /\ CallCount("translate failed", outbox[c][k].seg, "French") = 1
    /\ HasRecord(outbox[c][k].seg, "Spanish")
    /\ \E d \in Conns : language[d] = "Spanish" /\ GotText(d, outbox[c][k].seg, "Spanish")

\* the fan-out step of a segment delivers the original to the open English
\* connections of the group and issues the translation requests of all target
\* languages, each job then waiting for its own request
FanoutIssuesAll ==
  \A t \in Segments : FanoutStep(t) =>
    /\ \A i \in 1..Len(GroupIds(tasks[t].audioEventId)) :
         LET en == Group(tasks[t].audioEventId)[i]
         IN (en.language = "English" /\ readyState[en.ws] = "OPEN")
              => GotText(en.ws, t, "English")'
    /\ DOMAIN tasks'[t].jobs = TargetsOf(tasks[t].audioEventId)
    /\ \A l \in DOMAIN tasks'[t].jobs :
         tasks'[t].jobs[l].pc = "t384" /\ CallCount("translate", t, l)' = 1

\* a job waits for nothing but its own request: while it waits for the
\* translation the request has been issued and its completion can be handled
\* whenever the loop is idle, whatever the state of the other jobs; once its
\* record is stored its delivery is queued
JobsAreIndependent ==
  \A t \in Segments : \A l \in DOMAIN tasks[t].jobs :
    /\ tasks[t].jobs[l].pc = "t384" =>
         /\ CallCount("translate", t, l) = 1
         /\ Idle => ENABLED TranslateDone(t, l, FALSE)
    /\ tasks[t].jobs[l].pc = "t387" => \E k \in 1..Len(microQ) : microQ[k] = <<t, l>>
    /\ tasks[t].jobs[l].pc \in {"t384", "t387", "t413", "done"}

\* C15: the translation requests of all target languages of a segment are
\* issued before any is awaited, and a request that is slow or never returns
\* for one language delays neither the delivery for another language nor the
\* delivery of the original to the English connections
C15_JobsRunConcurrently == []JobsAreIndependent /\ [][FanoutIssuesAll]_vars

\* the French text and the English original have been delivered while the
\* Spanish translation request is still pending
C15_Witness ==
  \E t \in Segments :
    /\ DOMAIN tasks[t].jobs = {"Spanish", "French"}
    /\ tasks[t].jobs["Spanish"].pc = "t384"
    /\ \E c \in Conns : language[c] = "French" /\ GotText(c, t, "French")
    /\ GotText(tasks[t].conn, t, "English")

\* the positions in the store of the records of segment t in language l
RecordsOf(t, l) ==
  {i \in 1..Len(translations) :
     translations[i].language = l /\ translations[i].originalText = SegText(t)}

\* C16: when a translation request of a segment has been issued the store
\* holds the segment's English record, with no translated text, and every
\* record of the segment in another language comes after it
C16_SourceRecordFirst ==
  \A t \in 1..nMsgs :
    /\ (\E l \in LanguageNames : CallCount("translate", t, l) > 0) =>
         \E i \in RecordsOf(t, "English") : translations[i].translatedText = << >>
    /\ \A l \in LanguageNames \ {"English"} : \A j \in RecordsOf(t, l) :
         \E i \in RecordsOf(t, "English") :
           i < j /\ translations[i].translatedText = << >>

\* a segment has its English record and, after it, a Spanish one
C16_Witness ==
  \E t \in 1..nMsgs :
    /\ RecordsOf(t, "English") # {}
    /\ RecordsOf(t, "Spanish") # {}
    /\ CallCount("translate", t, "Spanish") = 1

\* the transcription of segment t fails in this step: its request fails, or
\* transcribeAudio has thrown before it issued one
TranscribeFails(t) ==
  \/ CallCount("transcribe failed", t, "")' > CallCount("transcribe failed", t, "")
  \/ tasks[t].pc = "a323throw" /\ t \notin DOMAIN tasks'

\* nothing but message m is sent in this step, and m goes to connection c
\* alone (nothing is sent when the transport of c is not open)
OnlySends(c, m) ==
  /\ \A d \in Conns \ {c} : outbox'[d] = outbox[d]
  /\ outbox'[c] = IF readyState[c] = "OPEN" THEN Append(outbox[c], m) ELSE outbox[c]

\* nothing but one error message is sent in this step, and it goes to
\* connection c alone (nothing is sent when the transport of c is not open)
SendsOneError(c) ==
  /\ \A d \in Conns \ {c} : outbox'[d] = outbox[d]
  /\ IF readyState[c] = "OPEN"
     THEN /\ Len(outbox'[c]) = Len(outbox[c]) + 1
          /\ SubSeq(outbox'[c], 1, Len(outbox[c])) = outbox[c]
          /\ Last(outbox'[c]).type = "error"
     ELSE outbox'[c] = outbox[c]

\* no translation or speech request is issued in this step
NoFanoutCall ==
  \A k \in DOMAIN calls' :
    k[1] \in {"translate", "speech"} => k \in DOMAIN calls /\ calls'[k] = calls[k]

\* the step in which the transcription fails sends one error to the submitter
\* and ends the handler without a record and without a request
FailureAborts ==
  \A t \in Segments : TranscribeFails(t) =>
    /\ SendsOneError(tasks[t].conn)
    /\ translations' = translations
    /\ NoFanoutCall
    /\ t \notin DOMAIN tasks'

\* a segment whose transcription failed has no record, no translation or
\* speech request, and no message but the acknowledgement and the one error
NothingAfterFailure ==
  \A t \in 1..nMsgs : CallCount("transcribe failed", t, "") > 0 =>
    /\ \A l \in LanguageNames :
         /\ RecordsOf(t, l) = {}
         /\ CallCount("translate", t, l) = 0 /\ CallCount("speech", t, l) = 0
    /\ \A c \in Conns :
         Cardinality({k \in 1..Len(outbox[c]) :
            "seg" \in DOMAIN outbox[c][k] /\ outbox[c][k].seg = t
              /\ outbox[c][k].type = "error"}) <= 1
    /\ \A c \in Conns : \A k \in 1..Len(outbox[c]) :
         ("seg" \in DOMAIN outbox[c][k] /\ outbox[c][k].seg = t) =>
           \/ outbox[c][k].type = "error"
           \/ outbox[c][k].type = "processing_status" /\ outbox[c][k].status = "processing"

\* C17: when the transcription request fails, one error message is sent, to
\* the submitting connection only, no record is created, no translation or
\* speech request is made, and nothing is sent to any other connection
C17_TranscriptionFailureAborts == []NothingAfterFailure /\ [][FailureAborts]_vars

\* a transcription has failed, the submitter has its error, and another
\* connection is registered in the event
C17_Witness ==
  \E t \in 1..nMsgs : \E c \in Conns :
    /\ CallCount("transcribe failed", t, "") = 1
    /\ \E k \in 1..Len(outbox[c]) :
         outbox[c][k].type = "error" /\ "seg" \in DOMAIN outbox[c][k] /\ outbox[c][k].seg = t
    /\ \E d \in Conns \ {c} : readyState[d] = "OPEN" /\ language[d] = "Spanish"

\* the handler of segment t ends on a transcription without speech
EmptyStep(t) ==
  /\ tasks[t].pc \in {"a323", "a323io"}
  /\ t \notin DOMAIN tasks'
  /\ ~TranscribeFails(t)

\* the step that finds no speech sends the 'complete' status to the submitter
\* alone, and creates no record and issues no request
EmptyAborts ==
  \A t \in Segments : EmptyStep(t) =>
    /\ OnlySends(tasks[t].conn,
                 [type |-> "processing_status", status |-> "complete", seg |-> t,
                  message |-> "No speech detected in audio"])
    /\ translations' = translations
    /\ NoFanoutCall

\* no record holds an empty or blank text, and a segment that was answered
\* with 'no speech detected' has no record, no request and no other message
\* than its acknowledgement
NothingForSilence ==
  /\ \A i \in 1..Len(translations) : translations[i].originalText \notin {"", " "}
  /\ \A c \in Conns : \A k \in 1..Len(outbox[c]) :
       (outbox[c][k].type = "processing_status" /\ outbox[c][k].status = "complete"
          /\ "totalLanguages" \notin DOMAIN outbox[c][k]) =>
         /\ \A l \in LanguageNames :
              /\ RecordsOf(outbox[c][k].seg, l) = {}
              /\ CallCount("translate", outbox[c][k].seg, l) = 0
              /\ CallCount("speech", outbox[c][k].seg, l) = 0
         /\ \A d \in Conns \ {c} : \A j \in 1..Len(outbox[d]) :
              "seg" \in DOMAIN outbox[d][j] => outbox[d][j].seg # outbox[c][k].seg

\* C18: a transcription that is empty or blank produces no record, no request
\* and no message to any connection but the submitter, who gets a 'complete'
\* status saying that no speech was detected
C18_SilenceAborts == []NothingForSilence /\ [][EmptyAborts]_vars

\* a segment was answered with 'no speech detected' after a transcription
\* request, while a Spanish listener is registered
C18_Witness ==
  \E c \in Conns : \E k \in 1..Len(outbox[c]) :
    /\ outbox[c][k].type = "processing_status" /\ outbox[c][k].status = "complete"
    /\ "totalLanguages" \notin DOMAIN outbox[c][k]
    /\ CallCount("transcribe", outbox[c][k].seg, "") = 1
    /\ \E d \in Conns \ {c} : readyState[d] = "OPEN" /\ language[d] = "Spanish"

----------------------------------------------------------------------------
(* The preference specification: the organizer and one listener with audio, *)
(* who change language and audio preference before and after they join, and *)
(* one segment                                                              *)

MaxPrefConns == 2
MaxPrefMsgs == 4

PrefAudioMsgs == [eventId : {"1"}, audioLen : {60, 200}]
PrefLanguages == {"English", "French"}

NextPrefs ==
  \/ eventCurrentId <= MaxEvents /\ CreateEvent
  \/ clock < MaxClock /\ Tick
  \/ \E c \in 1..MaxPrefConns : events # {} /\ Connect(c)
  \/ \E c \in Conns : \E data \in PipeJoinMsgs(c) : NotJoined(c) /\ JoinStart(c, data)
  \/ nSegs + nInvalid < MaxSegs /\ \E c \in Conns, data \in PrefAudioMsgs : AudioData(c, data)
  \/ \E c \in Conns, lang \in PrefLanguages : nMsgs < MaxPrefMsgs /\ UpdateLanguage(c, lang)
  \/ \E c \in Conns, audio \in BOOLEAN : nMsgs < MaxPrefMsgs /\ ToggleAudio(c, audio)
  \/ \E t \in DOMAIN tasks : UpdateLanguageStore(t)
  \/ \E c \in Conns : MayLeave(c) /\ PeerClose(c)
  \/ \E c \in Conns : PeerProtocolError(c)
  \/ nSegs + nInvalid < MaxSegs /\ \E c \in Conns : InvalidMessage(c)
  \/ \E c \in Conns : MayLeave(c) /\ OnClose(c)
  \/ PipelineStep

SpecPrefs == Init /\ [][NextPrefs]_vars

----------------------------------------------------------------------------
(* Properties of the audio delivery *)

\* connection c receives an audio_translation message in this step
GetsAudio(c) ==
  \E k \in Len(outbox[c]) + 1..Len(outbox'[c]) : outbox'[c][k].type = "audio_translation"

\* the language of the audio connection c receives in this step
AudioLanguage(c) ==
  outbox'[c][CHOOSE k \in Len(outbox[c]) + 1..Len(outbox'[c]) :
               outbox'[c][k].type = "audio_translation"].language

\* the segment of that audio
AudioSegment(c) ==
  outbox'[c][CHOOSE k \in Len(outbox[c]) + 1..Len(outbox'[c]) :
               outbox'[c][k].type = "audio_translation"].seg

\* C19: a connection that receives an audio_translation message is, at that
\* moment, registered in the segment's event with the audio preference on and
\* with the language of the audio, which is not English
C19_AudioOnlyToAudioListeners ==
  [][\A c \in Conns : GetsAudio(c) =>
       /\ AudioLanguage(c) # "English"
       /\ \E i \in 1..Len(GroupIds(tasks[AudioSegment(c)].audioEventId)) :
            LET en == Group(tasks[AudioSegment(c)].audioEventId)[i]
            IN en.ws = c /\ en.enableAudio /\ en.language = AudioLanguage(c)]_vars

\* a speech request of the job of language l of segment t fails in this step
SpeechFails(t, l) ==
  CallCount("speech failed", t, l)' > CallCount("speech failed", t, l)

\* connection c receives nothing but translated text in this step
OnlyTextTo(c) ==
  \A k \in Len(outbox[c]) + 1..Len(outbox'[c]) : outbox'[c][k].type = "translation"

\* the step in which a speech request fails sends no error and no audio, and
\* the job goes on to its next client or returns as succeeded
SpeechFailureIsCaught ==
  \A t \in Segments : \A l \in DOMAIN tasks[t].jobs : SpeechFails(t, l) =>
    /\ \A c \in Conns : OnlyTextTo(c)
    /\ tasks'[t].jobs[l].pc \in {"t413", "done"}
    /\ tasks'[t].jobs[l].pc = "done" => tasks'[t].jobs[l].success
    /\ \A o \in DOMAIN tasks[t].jobs \ {l} : tasks'[t].jobs[o] = tasks[t].jobs[o]

\* when the handler of a segment returns from its fan-out, a language whose
\* speech request failed has its text delivered to every open client of the
\* job, and is reported as succeeded
SpeechFailureKeepsText ==
  \A t \in Segments : CompleteStep(t) =>
    \A l \in DOMAIN tasks[t].jobs : CallCount("speech failed", t, l) > 0 =>
      /\ TextReached(t, l)
      /\ HasRecord(t, l)
      /\ tasks[t].jobs[l].success
      /\ readyState[tasks[t].conn] = "OPEN" =>
           Last(outbox'[tasks[t].conn]).successfulTranslations
             = Cardinality({o \in DOMAIN tasks[t].jobs : HasRecord(t, o)})

\* C20: a speech request that fails costs the audio only: the open
\* connections of the language still receive the translated text, the jobs of
\* the other languages are untouched, and the language is reported as
\* succeeded in the aggregate status
C20_SpeechFailureDegradesAudioOnly ==
  [][SpeechFailureIsCaught /\ SpeechFailureKeepsText]_vars

\* the speech request for the first of two Spanish listeners has failed, both
\* have the text, and the status reports Spanish as succeeded
C20_Witness ==
  \E t \in 1..nMsgs : \E c \in Conns : \E k \in Aggregates(c) :
    /\ outbox[c][k].seg = t
    /\ outbox[c][k].successfulTranslations = 1 /\ outbox[c][k].failedTranslations = 0
    /\ CallCount("speech failed", t, "Spanish") > 0
    /\ Cardinality({d \in Conns : language[d] = "Spanish" /\ GotText(d, t, "Spanish")}) = 2

----------------------------------------------------------------------------
(* Properties of the aggregate status and of the records *)

\* the aggregate statuses of segment t that connection c has received
AggregatesOf(c, t) == {k \in Aggregates(c) : outbox[c][k].seg = t}

\* connection c receives an aggregate status of segment t in this step
GetsAggregate(c, t) ==
  \E k \in Len(outbox[c]) + 1..Len(outbox'[c]) :
    /\ outbox'[c][k].type = "processing_status" /\ outbox'[c][k].status = "complete"
    /\ "totalLanguages" \in DOMAIN outbox'[c][k]
    /\ outbox'[c][k].seg = t

\* every language job of segment t has returned
JobsReturned(t) == \A l \in DOMAIN tasks[t].jobs : tasks[t].jobs[l].pc = "done"

\* an aggregate status is sent by the handler of its segment only, to the
\* submitting connection, when every job of the segment has returned; and the
\* handler that returns from its fan-out sends it, and nothing else
AggregateAfterJobs ==
  /\ \A t \in 1..nMsgs + 1 : \A c \in Conns : GetsAggregate(c, t) =>
       /\ t \in Segments /\ CompleteStep(t)
       /\ c = tasks[t].conn
       /\ JobsReturned(t)
  /\ \A t \in Segments : CompleteStep(t) =>
       /\ JobsReturned(t)
       /\ \A d \in Conns \ {tasks[t].conn} : outbox'[d] = outbox[d]
       /\ readyState[tasks[t].conn] = "OPEN" =>
            /\ Len(outbox'[tasks[t].conn]) = Len(outbox[tasks[t].conn]) + 1
            /\ GetsAggregate(tasks[t].conn, t)

\* once the aggregate status of a segment has been sent, no message of that
\* segment is sent to any connection
NothingAfterAggregate ==
  \A t \in 1..nMsgs :
    (\E c \in Conns : AggregatesOf(c, t) # {}) =>
      \A d \in Conns : \A k \in Len(outbox[d]) + 1..Len(outbox'[d]) :
        "seg" \in DOMAIN outbox'[d][k] => outbox'[d][k].seg # t

\* no segment has two aggregate statuses, and the aggregate status of a
\* segment is held by the connection that was sent its acknowledgement
OneAggregate ==
  \A t \in 1..nMsgs :
    /\ Cardinality({c \in Conns : AggregatesOf(c, t) # {}}) <= 1
    /\ \A c \in Conns :
         /\ Cardinality(AggregatesOf(c, t)) <= 1
         /\ AggregatesOf(c, t) # {} =>
              \E j \in 1..Len(outbox[c]) :
                /\ outbox[c][j].type = "processing_status"
                /\ outbox[c][j].status = "transcribed" /\ outbox[c][j].seg = t

\* C21: a segment with a non-empty transcription gets one aggregate status,
\* sent to the submitting connection only, when every language job has
\* returned; no translation or audio of the segment is sent after it
C21_OneAggregateAfterJobs ==
  []OneAggregate /\ [][AggregateAfterJobs /\ NothingAfterAggregate]_vars

\* the submitter has the aggregate status of a segment with two target
\* languages, whose Spanish listener has received text and audio
C21_Witness ==
  \E t \in 1..nMsgs : \E c \in Conns :
    /\ AggregatesOf(c, t) # {}
    /\ \A k \in AggregatesOf(c, t) : outbox[c][k].totalLanguages = 3
    /\ \E d \in Conns \ {c} :
         /\ GotText(d, t, "Spanish")
         /\ \E j \in 1..Len(outbox[d]) :
              outbox[d][j].type = "audio_translation" /\ outbox[d][j].seg = t

\* no segment has two records of one language; the English record of a
\* segment has no translated text and every other record has one
AtMostOneRecord ==
  /\ \A t \in 1..nMsgs : \A l \in LanguageNames : Cardinality(RecordsOf(t, l)) <= 1
  /\ \A i \in 1..Len(translations) :
       /\ translations[i].language \in LanguageNames
       /\ translations[i].language = "English" <=> translations[i].translatedText = << >>

\* when the handler of a segment returns from its fan-out the store holds one
\* English record of the segment, one record of each target language whose
\* translation request succeeded, and none of any other language
RecordsMatchJobs ==
  \A t \in Segments : CompleteStep(t) =>
    /\ Cardinality(RecordsOf(t, "English")) = 1
    /\ \A l \in LanguageNames \ {"English"} :
         Cardinality(RecordsOf(t, l)) =
           IF l \in DOMAIN tasks[t].jobs /\ l \notin FailedTargets(t) THEN 1 ELSE 0
    /\ translations' = translations

\* C22: a pipeline run creates one English record without translated text,
\* one record for each target language whose translation succeeded, none for
\* a language whose translation failed, and never two records of one segment
\* in one language
C22_OneRecordPerLanguage == []AtMostOneRecord /\ [][RecordsMatchJobs]_vars

\* a segment with two Spanish listeners and a French one has ended with its
\* English record, one Spanish record, and no French one as that request failed
C22_Witness ==
  \E t \in 1..nMsgs : \E c \in Conns :
    /\ AggregatesOf(c, t) # {}
    /\ Cardinality(RecordsOf(t, "English")) = 1
    /\ Cardinality(RecordsOf(t, "Spanish")) = 1
    /\ RecordsOf(t, "French") = {}
    /\ CallCount("translate failed", t, "French") = 1
    /\ Cardinality({d \in Conns : language[d] = "Spanish"}) >= 1

----------------------------------------------------------------------------
(* Properties of the preference messages, checked under SpecPrefs *)

\* the entry of the session of connection c in the group of its event, 0
\* when the session is not registered
EntryOf(c) ==
  IF Has(activeConnections, eventId[c]) /\ FindIndex(entries, GroupIds(eventId[c]), sessionId[c]) > 0
  THEN GroupIds(eventId[c])[FindIndex(entries, GroupIds(eventId[c]), sessionId[c])]
  ELSE 0

\* this step handles an update_language message of connection c
UpdateLanguageStep(c) ==
  /\ nMsgs' = nMsgs + 1
  /\ nMsgs' \in DOMAIN tasks'
  /\ tasks'[nMsgs'].kind = "update_language" /\ tasks'[nMsgs'].conn = c

\* this step handles a toggle_audio message: a message that is no audio_data
\* and starts no handler continuation
ToggleAudioStep ==
  nMsgs' = nMsgs + 1 /\ nSegs' = nSegs /\ tasks' = tasks

\* the entries other than number i are left as they are, and entry i keeps
\* its role, its sessionId and its transport
OnlyEntry(i) ==
  /\ Len(entries') = Len(entries)
  /\ \A j \in 1..Len(entries) : j # i => entries'[j] = entries[j]
  /\ i > 0 =>
       /\ entries'[i].ws = entries[i].ws
       /\ entries'[i].sessionId = entries[i].sessionId
       /\ entries'[i].isOrganizer = entries[i].isOrganizer

\* the groups keep their members and nothing is sent
NoReplyNoMove ==
  /\ activeConnections' = activeConnections
  /\ arrays' = arrays
  /\ outbox' = outbox

\* update_language sets the language of the entry of the sender's session and
\* nothing else; without such an entry it leaves the registry as it is
LanguageFrame ==
  \A c \in Conns : UpdateLanguageStep(c) =>
    /\ NoReplyNoMove
    /\ OnlyEntry(EntryOf(c))
    /\ EntryOf(c) > 0 =>
         /\ entries'[EntryOf(c)].language = language'[c]
         /\ entries'[EntryOf(c)].enableAudio = entries[EntryOf(c)].enableAudio

\* toggle_audio sets the audio preference of the entry of the sender's
\* session and nothing else; without such an entry it leaves the registry as
\* it is
AudioFrame ==
  ToggleAudioStep =>
    /\ NoReplyNoMove
    /\ \E c \in Conns :
         /\ \A d \in Conns \ {c} : enableAudio'[d] = enableAudio[d]
         /\ OnlyEntry(EntryOf(c))
         /\ EntryOf(c) > 0 =>
              /\ entries'[EntryOf(c)].language = entries[EntryOf(c)].language
              /\ entries'[EntryOf(c)].enableAudio \in {enableAudio'[c], entries[EntryOf(c)].enableAudio}
    /\ \A c \in Conns : enableAudio'[c] # enableAudio[c] =>
         /\ OnlyEntry(EntryOf(c))
         /\ EntryOf(c) > 0 => entries'[EntryOf(c)].enableAudio = enableAudio'[c]

\* no step changes the role, the sessionId or the transport of an entry
EntriesKeepIdentity ==
  \A i \in 1..Len(entries) :
    /\ i <= Len(entries')
    /\ entries'[i].ws = entries[i].ws
    /\ entries'[i].sessionId = entries[i].sessionId
    /\ entries'[i].isOrganizer = entries[i].isOrganizer

\* C23: update_language and toggle_audio leave the registry as it is and send
\* no reply when the session of the sender is not registered; otherwise they
\* change the language, respectively the audio preference, of the entry of
\* that session and nothing else
C23_PreferenceFrame == [][LanguageFrame /\ AudioFrame /\ EntriesKeepIdentity]_vars

\* a connection that has not joined has sent update_language, which left the
\* registry alone, and the registered organizer has changed its language and
\* its audio preference
C23_Witness ==
  \E c, d \in Conns :
    /\ c # d
    /\ sessionId[c] = "" /\ language[c] = "French" /\ readyState[c] = "OPEN"
    /\ Len(entries) = 1
    /\ entries[1].ws = d /\ entries[1].language = "French" /\ entries[1].enableAudio
    /\ entries[1].isOrganizer

----------------------------------------------------------------------------
(* Properties of the rejected messages *)

\* this step handles a join message that is rejected: a message that starts
\* no handler continuation
RejectedJoinStep == nMsgs' = nMsgs + 1 /\ tasks' = tasks

\* the rejected join leaves the registry, the store and the closure variables
\* of every connection as they are; its sender gets one error message and
\* nobody else gets anything
RejectionChangesNothing ==
  RejectedJoinStep =>
    /\ UNCHANGED <<activeConnections, arrays, entries>>
    /\ UNCHANGED <<sessionId, eventId, language, enableAudio>>
    /\ UNCHANGED <<readyState, events, eventCurrentId, participants, translations, nanoCount>>
    /\ \E c \in Conns :
         /\ CanReceive(c)
         /\ OnlySends(c, [type |-> "error", message |-> "Missing eventId"])

\* no connection is joined to, no group belongs to, and no session_joined
\* names the event a missing identifier would parse to
NoJoinWithoutEvent ==
  /\ \A c \in Conns : eventId[c] # NaN
  /\ ~Has(activeConnections, NaN)
  /\ \A c \in Conns : \A k \in 1..Len(outbox[c]) :
       outbox[c][k].type = "session_joined" => outbox[c][k].eventId # NaN

\* C24: a join message without an event identifier is answered with an error
\* and changes nothing: the registry is left as it is, no session_joined is
\* sent, and the sender stays joined or not joined as it was
C24_JoinWithoutEventRejected == []NoJoinWithoutEvent /\ [][RejectionChangesNothing]_vars

\* a connection that had joined has then sent a join without event
\* identifier: its last message is the error, and its entry is still in place
C24_Witness ==
  \E c \in Conns :
    /\ readyState[c] = "OPEN"
    /\ outbox[c] # << >>
    /\ Last(outbox[c]) = [type |-> "error", message |-> "Missing eventId"]
    /\ \E k \in 1..Len(outbox[c]) : outbox[c][k].type = "session_joined"
    /\ EntryOf(c) > 0 /\ entries[EntryOf(c)].ws = c
    /\ Len(entries) = 1

\* the 'skipped' acknowledgement of segment t
SkippedMsg(t) == [type |-> "processing_status", status |-> "skipped", seg |-> t]

\* an audio_data message of a registered organizer of an existing event whose
\* payload is shorter than the threshold is taken on without an error reply,
\* to be acknowledged by its handler
ShortPayloadAccepted ==
  \A c \in Conns : \A data \in AudioMsgs :
    (/\ AudioData(c, data)
     /\ data.audioLen < AudioMinChars
     /\ ParseInt(data.eventId) \in events
     /\ RegisteredOrganizer(c, ParseInt(data.eventId)))
    => /\ outbox' = outbox
       /\ nMsgs' \in DOMAIN tasks' /\ tasks'[nMsgs'].audioLen = data.audioLen

\* the handler of such a message ends at the size check: it sends 'skipped'
\* to the organizer alone, issues no request and creates no record
ShortPayloadSkipped ==
  \A t \in Segments :
    (/\ tasks[t].pc = "a280"
     /\ t \notin DOMAIN tasks' \/ tasks'[t] # tasks[t]
     /\ tasks[t].audioLen < AudioMinChars
     /\ tasks[t].event
     /\ RegisteredOrganizer(tasks[t].conn, tasks[t].audioEventId))
    => /\ t \notin DOMAIN tasks'
       /\ OnlySends(tasks[t].conn, SkippedMsg(t))
       /\ calls' = calls /\ translations' = translations

\* C25: an audio_data payload of a registered organizer that is shorter than
\* the threshold of 50 characters is acknowledged as 'skipped': no
\* transcription request is issued, no record is created, and nothing is sent
\* to any other connection
C25_ShortPayloadSkipped == [][ShortPayloadAccepted /\ ShortPayloadSkipped]_vars

----------------------------------------------------------------------------
(* Properties of the store, checked under SpecStore *)

\* the calls of getRecentTranslations
Queries == {q \in DOMAIN tasks : tasks[q].kind = "getRecentTranslations"}

\* C26: getRecentTranslations(eventId, limit) returns at most limit records,
\* all of them records of the store with the requested eventId
C26_RecentWithinLimit ==
  \A q \in Queries :
    /\ Len(tasks[q].result) <= tasks[q].limit
    /\ \A i \in 1..Len(tasks[q].result) :
         /\ tasks[q].result[i].eventId = tasks[q].eventId
         /\ \E j \in 1..Len(translations) : translations[j] = tasks[q].result[i]

\* a call with limit 2 on a store that holds three records of the event and
\* one of another event has returned two records
C26_Witness ==
  \E q \in Queries :
    /\ tasks[q].limit = 2 /\ Len(tasks[q].result) = 2
    /\ Cardinality({j \in 1..Len(translations) : translations[j].eventId = tasks[q].eventId}) = 3
    /\ \E j \in 1..Len(translations) : translations[j].eventId # tasks[q].eventId

\* the ids of the records of event eid, which grow in the order of creation
EventIds(eid) ==
  {translations[j].id : j \in {k \in 1..Len(translations) : translations[k].eventId = eid}}

\* the ids of the records the call q returned
ResultIds(q) == {tasks[q].result[i].id : i \in 1..Len(tasks[q].result)}

\* C27: getRecentTranslations(eventId, 10) returns the 10 records of the
\* event that were created last, or all of them when there are fewer, also
\* when records share a timestamp
C27_RecentAreLatest ==
  \A q \in Queries : tasks[q].limit = RecentLimit =>
    /\ Cardinality(ResultIds(q)) =
         IF Cardinality(EventIds(tasks[q].eventId)) < RecentLimit
         THEN Cardinality(EventIds(tasks[q].eventId)) ELSE RecentLimit
    /\ \A a \in ResultIds(q) : \A b \in EventIds(tasks[q].eventId) \ ResultIds(q) : b < a

----------------------------------------------------------------------------
(* Properties of supersession and of the delivery to late joiners *)

\* C28: the close event of a connection removes no entry whose transport is
\* another connection that is open; in particular the entry of a connection
\* that superseded it stays registered
C28_CloseKeepsSuperseder ==
  [][\A a \in Conns : (readyState[a] # "CLOSED" /\ readyState'[a] = "CLOSED") =>
       \A e \in DOMAIN activeConnections : \A i \in 1..Len(GroupIds(e)) :
         (Group(e)[i].ws # a /\ readyState[Group(e)[i].ws] = "OPEN") =>
           /\ Has(activeConnections', e)
           /\ \E k \in 1..Len(arrays'[activeConnections'[e]]) :
                arrays'[activeConnections'[e]][k] = GroupIds(e)[i]]_vars

\* the job of language l of segment t delivers its text and returns, all in
\* this step
DeliversAndReturns(t, l) ==
  /\ tasks[t].jobs[l].pc = "t387"
  /\ tasks'[t].jobs[l].pc = "done" /\ tasks'[t].jobs[l].success

\* C29: when the translated text of a segment is delivered for a language,
\* every open connection that is registered in the event with that language
\* at that moment receives it, also one that joined while the translation
\* request was pending, before or after another connection disconnected
C29_DeliveryToCurrentlyRegistered ==
  [][\A t \in Segments : \A l \in DOMAIN tasks[t].jobs : DeliversAndReturns(t, l) =>
       \A i \in 1..Len(GroupIds(tasks[t].audioEventId)) :
         LET en == Group(tasks[t].audioEventId)[i]
         IN (en.language = l /\ readyState[en.ws] = "OPEN") => GotText(en.ws, t, l)']_vars

\* C30: while a job waits for the speech of one connection, every other open
\* connection of its client list already has the translated text: the text
\* does not wait for the synthesis done for another connection
C30_TextDoesNotWaitForSpeech ==
  \A t \in Segments : \A l \in DOMAIN tasks[t].jobs :
    tasks[t].jobs[l].pc = "t413" =>
      \A i \in 1..Len(tasks[t].jobs[l].clients) :
        LET en == entries[tasks[t].jobs[l].clients[i]]
        IN readyState[en.ws] = "OPEN" => GotText(en.ws, t, l)

----------------------------------------------------------------------------
(* Properties of the sends and of the frame of the pipeline *)

\* C31: the pipeline attempts no translation or audio_translation send on a
\* transport that is not open at the moment of the send, the audio send after
\* the speech request included
C31_SendsCheckLiveness ==
  \A k \in DOMAIN calls : k[1] # "send not open"

\* this step is a step of the handling of an audio_data message: the message
\* arrives, or its handler or one of its jobs goes on or returns
AudioStep ==
  \/ nSegs' = nSegs + 1
  \/ \E t \in Segments : t \notin DOMAIN tasks' \/ tasks'[t] # tasks[t]

\* such a step leaves the groups and every field of every entry as they are
AudioKeepsRegistry ==
  AudioStep => UNCHANGED <<activeConnections, arrays, entries>>

\* such a step closes no transport, detaches no listener and does not end the
\* process: the connections that were open go on receiving messages
AudioKeepsTransport ==
  AudioStep => UNCHANGED <<readyState, socketOnData, exited>>

\* C32: the processing of an audio_data message, whatever its outcome, leaves
\* the set of groups and every field of every entry unchanged, and the
\* submitting connection stays open and goes on handling messages
C32_AudioKeepsRegistry == [][AudioKeepsRegistry /\ AudioKeepsTransport]_vars

\* the transcription of a segment has failed, and a later segment of the same
\* organizer has been translated and has got its aggregate status, while
\* organizer and listener are registered with open transports
C32_Witness ==
  \E t1, t2 \in 1..nMsgs :
    /\ t1 < t2
    /\ CallCount("transcribe failed", t1, "") = 1
    /\ t2 \notin DOMAIN tasks
    /\ CallCount("translate", t2, "Spanish") = 1
    /\ \E k \in 1..Len(outbox[1]) :
         /\ outbox[1][k].type = "processing_status"
         /\ outbox[1][k].status = "complete"
         /\ outbox[1][k].seg = t2
    /\ Len(GroupIds(1)) = 2
    /\ \A c \in 1..2 : readyState[c] = "OPEN"

\* connection c is the transport of an entry of the group of event e
RegisteredIn(c, e) ==
  \E i \in 1..Len(GroupIds(e)) : Group(e)[i].ws = c

\* the same, after this step
RegisteredInNext(c, e) ==
  /\ Has(activeConnections', e)
  /\ \E i \in 1..Len(arrays'[activeConnections'[e]]) :
       entries'[arrays'[activeConnections'[e]][i]].ws = c

\* the messages connection d receives in this step
NewTo(d) == {k \in 1..Len(outbox'[d]) : k > Len(outbox[d])}

\* a translation or audio_translation message of a segment goes to
\* connections that have an entry in the group of the segment's event
SegmentStaysInEvent ==
  \A d \in Conns : \A k \in NewTo(d) :
    outbox'[d][k].type \in {"translation", "audio_translation"} =>
      RegisteredIn(d, tasks[outbox'[d][k].seg].audioEventId)

\* a participant_count message goes to connections of the group of the event
\* of the join or close that sends it
PresenceStaysInEvent ==
  \A d \in Conns : \A k \in NewTo(d) :
    outbox'[d][k].type = "participant_count" =>
      \/ \E t \in DOMAIN tasks \ DOMAIN tasks' :
           tasks[t].kind = "join" /\ RegisteredIn(d, eventId[tasks[t].conn])
      \/ \E c \in Conns :
           /\ readyState[c] # "CLOSED" /\ readyState'[c] = "CLOSED"
           /\ RegisteredInNext(d, eventId[c])

\* the array of entry ids of the group of event e after this step
GroupIdsNext(e) ==
  IF Has(activeConnections', e) THEN arrays'[activeConnections'[e]] ELSE << >>

\* the group of an event changes only by a join to that event or by the
\* close of a connection of that event
GroupChangesInEvent ==
  \A e \in {NaN, 0, 1, 2} :
    (GroupIdsNext(e) # GroupIds(e) \/ Has(activeConnections', e) # Has(activeConnections, e)) =>
      \/ \E c \in Conns : nMsgs' = nMsgs + 1 /\ eventId'[c] = e /\ RegisteredInNext(c, e)
      \/ \E c \in Conns :
           readyState[c] # "CLOSED" /\ readyState'[c] = "CLOSED" /\ eventId[c] = e

\* C33: the translation, audio_translation and participant_count messages of
\* an event go only to connections that have an entry in the group of that
\* event, and the group of an event is changed by nothing but a join to it or
\* the close of one of its connections
C33_CrossEventIsolation ==
  [][SegmentStaysInEvent /\ PresenceStaysInEvent /\ GroupChangesInEvent]_vars

----------------------------------------------------------------------------
(* Handshake order *)

\* the positions of the messages of type ty connection c has received
Received(c, ty) == {k \in 1..Len(outbox[c]) : outbox[c][k].type = ty}

\* the acknowledgment is sent when the transport opens, once, ahead of every
\* other message of the connection
EstablishedFirst ==
  \A c \in Conns :
    /\ readyState[c] # "NEW" => outbox[c] # << >>
    /\ Received(c, "connection_established") = {k \in {1} : outbox[c] # << >>}

\* an accepted join creates its entry and sends nothing in the same step; the
\* entry has the sessionId of the message, or one that no entry and no
\* participant record has when the message carried none
EntryBeforeSend ==
  \A c \in Conns, data \in JoinMsgs :
    JoinStart(c, data) /\ data.eventId # "" =>
      /\ outbox' = outbox
      /\ Len(entries') = Len(entries) + 1
      /\ Last(entries').ws = c
      /\ data.sessionId # "" => Last(entries').sessionId = data.sessionId
      /\ data.sessionId = "" =>
           /\ Last(entries').sessionId # ""
           /\ \A i \in 1..Len(entries) : entries[i].sessionId # Last(entries').sessionId
           /\ \A i \in 1..Len(participants) : participants[i].sessionId # Last(entries').sessionId

\* a confirmation comes right after the event's metadata (or the error that
\* is sent in its place when the event store has no such event), which comes
\* after the recent translations of the same join, and only participant
\* counts follow it in the step that sends it
ConfirmationInOrder ==
  \A c \in Conns : \A k \in NewTo(c) :
    outbox'[c][k].type = "session_joined" =>
      /\ k > 2
      /\ outbox'[c][k - 1].type \in {"event_info", "error"}
      /\ k - 1 \in NewTo(c)
      /\ \E j \in 1..(k - 2) : outbox'[c][j].type = "recent_translations"
      /\ \A j \in NewTo(c) : j > k => outbox'[c][j].type = "participant_count"

\* every confirmation has its own recent translations before it
RecentBeforeConfirmation ==
  \A c \in Conns :
    Cardinality(Received(c, "recent_translations")) >= Cardinality(Received(c, "session_joined"))

\* a join handler that has not sent its confirmation has broadcast no count
CountAfterConfirmation ==
  \A d \in Conns : \A k \in NewTo(d) :
    outbox'[d][k].type = "participant_count" =>
      \A t \in DOMAIN tasks : tasks[t].kind = "join" => (t \in DOMAIN tasks' => tasks'[t] = tasks[t])

\* the confirmations connection c has received with sessionId s
Confirmed(c, s) == {k \in Received(c, "session_joined") : outbox[c][k].sessionId = s}

\* the entries that were registered for connection c under sessionId s
RegisteredAs(c, s) == {i \in 1..Len(entries) : entries[i].ws = c /\ entries[i].sessionId = s}

\* every confirmation carries the sessionId of the entry its join registered:
\* a connection has no more confirmations of a sessionId than entries under it
ConfirmationCarriesRegistered ==
  \A c \in Conns : \A k \in Received(c, "session_joined") :
    Cardinality(Confirmed(c, outbox[c][k].sessionId))
      <= Cardinality(RegisteredAs(c, outbox[c][k].sessionId))

\* C34: connection_established is the first message of every connection; an
\* accepted join creates its registry entry before anything is sent, sends
\* recent_translations and event_info before session_joined and session_joined
\* before its participant_count broadcast; session_joined carries the sessionId
\* under which the entry was registered, a fresh one when the join carried none
C34_HandshakeOrder ==
  /\ [](EstablishedFirst /\ RecentBeforeConfirmation /\ ConfirmationCarriesRegistered)
  /\ [][EntryBeforeSend /\ ConfirmationInOrder /\ CountAfterConfirmation]_vars

----------------------------------------------------------------------------
(* Termination of the audio handler *)

\* an error, a 'skipped' status or a 'complete' status
Terminal(m) ==
  \/ m.type = "error"
  \/ m.type = "processing_status" /\ m.status \in {"skipped", "complete"}

\* the terminal replies connection c receives in this step
NewTerminal(c) == {k \in NewTo(c) : Terminal(outbox'[c][k])}

\* the handler of an audio_data message of connection c returns in this step:
\* at once for a message that fails the validation, or later as handler t
AudioReturns(c) ==
  \/ \E data \in AudioMsgs : AudioData(c, data) /\ nMsgs' \notin DOMAIN tasks'
  \/ \E t \in Segments : tasks[t].conn = c /\ t \notin DOMAIN tasks'

\* the handler of an audio_data message of connection c starts or goes on in
\* this step, and has not returned after it
AudioContinues(c) ==
  \E t \in DOMAIN tasks' :
    /\ tasks'[t].kind = "audio_data" /\ tasks'[t].conn = c
    /\ t \notin DOMAIN tasks \/ tasks[t] # tasks'[t]

\* the step in which the handler returns sends one terminal reply to a
\* submitting connection that is open
OneTerminalAtReturn ==
  \A c \in Conns :
    AudioReturns(c) /\ readyState[c] = "OPEN" => Cardinality(NewTerminal(c)) = 1

\* no other step of the handler sends a terminal reply
NoTerminalBefore ==
  \A c \in Conns : AudioContinues(c) => NewTerminal(c) = {}

\* every handler of an audio_data message returns, unless the process
\* terminates, which closes every connection
EveryAudioReturns ==
  \A t \in 1..(MaxConns + MaxSegs) : (t \in Segments) ~> (t \notin DOMAIN tasks \/ exited)

\* C35: every audio_data message eventually gets exactly one terminal reply
\* (an error, a 'skipped' status or a 'complete' status) on the submitting
\* connection, when every external call returns or fails and the connection
\* stays open
C35_OneTerminalReply ==
  /\ EveryAudioReturns
  /\ [][OneTerminalAtReturn /\ NoTerminalBefore]_vars

\* the organizer has the aggregate status of a segment whose translation was
\* requested, and the transport of the listener has closed meanwhile
C35_Witness ==
  \E t \in 1..nMsgs :
    /\ t \notin DOMAIN tasks
    /\ CallCount("translate", t, "Spanish") = 1
    /\ readyState[1] = "OPEN" /\ readyState[2] = "CLOSED"
    /\ \E k \in Received(1, "processing_status") :
         outbox[1][k].status = "complete" /\ outbox[1][k].seg = t

----------------------------------------------------------------------------
(* The client *)

\* the join message the page sends
IsJoin(m) == m.type = "join" /\ m.isOrganizer = (page = "AudioBroadcaster")

\* the timeout that sends the join of socket s is still to run
JoinPending(s) ==
  \E k \in DOMAIN timers : timers[k].pending /\ timers[k].kind = "join" /\ timers[k].socket = s

\* a socket that is open, and whose onOpen has done its work, has been sent a
\* join message
JoinSentOnOpen ==
  \A s \in DOMAIN sockets :
    sockets[s].readyState = "OPEN" /\ ~JoinPending(s) =>
      \E i \in 1..Len(sockets[s].sent) : IsJoin(sockets[s].sent[i])

\* the join is the first message that is sent on a socket
JoinSentFirst ==
  \A s \in DOMAIN sockets : sockets[s].sent # << >> => IsJoin(sockets[s].sent[1])

\* C36: when the client's socket opens, on the first connection and on every
\* reconnection, the client sends a join message for its event on that socket
\* (the AudioBroadcaster with isOrganizer = true, the participant page with its
\* sessionId, language and audio preference), ahead of any audio_data or update
\* message
C36_JoinOnOpen == JoinSentOnOpen /\ JoinSentFirst

\* disconnect() has been called
Disconnected == page # "" /\ ~mounted

\* a reconnect timeout is pending
ReconnectPending ==
  \E k \in DOMAIN timers : timers[k].pending /\ timers[k].kind = "reconnect"

\* after disconnect() the hook creates no socket
NoSocketAfterDisconnect == Disconnected => Len(sockets') = Len(sockets)

\* C37: after disconnect() has been called no reconnection is scheduled and
\* the reconnect logic of the hook creates no socket; the close event that
\* disconnect() causes starts no reconnect timer
C37_NoReconnectAfterDisconnect ==
  /\ [](Disconnected => ~ReconnectPending)
  /\ [][NoSocketAfterDisconnect]_vars

\* the sockets of the hook that are connecting or open
Live == {s \in DOMAIN sockets : sockets[s].readyState \in {"CONNECTING", "OPEN"}}

\* C38: at most one socket of a hook instance is connecting or open at any
\* time, for any interleaving of connect() calls (effect, reconnect timer,
\* manual reconnect), close events and disconnect()
C38_OneLiveSocket == Cardinality(Live) <= 1

\* reconnectCount.current stays within 0..reconnectAttempts
CountInRange == reconnectCount \in 0..ReconnectAttempts

\* the hook has made at most reconnectAttempts attempts since the last open
AttemptsInRange == attempts <= ReconnectAttempts

\* a socket opens in this step
Opens == \E s \in DOMAIN sockets : sockets[s].readyState = "CONNECTING" /\ sockets'[s].readyState = "OPEN"

\* an open resets the count
ResetOnOpen == Opens => reconnectCount' = 0

\* the reconnect timeouts that have been set
ReconnectsSet(tms) == {k \in DOMAIN tms : tms[k].kind = "reconnect"}

\* at the limit no reconnect is scheduled
NoScheduleAtLimit ==
  reconnectCount = ReconnectAttempts => ReconnectsSet(timers') = ReconnectsSet(timers)

\* C39: the number of reconnection attempts made since the last successful
\* open never exceeds reconnectAttempts: reconnectCount stays within
\* 0..reconnectAttempts, is reset to 0 on every open, and at reconnectAttempts
\* no further reconnect is scheduled until a socket opens
C39_BoundedReconnects ==
  /\ [](CountInRange /\ AttemptsInRange)
  /\ [][ResetOnOpen /\ NoScheduleAtLimit]_vars

====
